---- MODULE Spec2Model ----
(***************************************************************************)
(* A model of the online time series decomposition of                      *)
(* lib/maths/time_series/CTimeSeriesDecompositionDetail.cc: the mediator,  *)
(* the change point test, the seasonality test, the calendar cyclic test   *)
(* and the component store, with their four state machines.                *)
(*                                                                         *)
(* One top level operation, the delivery of an SAddValue to the mediator,  *)
(* is one action: it runs every handler and every message the handlers     *)
(* forward while they run.  What the handlers read from code outside this  *)
(* file (the outcome of the seasonality, calendar and change tests, the    *)
(* floating point statistics) is an input of the action: the record `o'.   *)
(***************************************************************************)
EXTENDS Integers, Sequences, FiniteSets, TLC

VARIABLES cfg,        \* the constructor arguments and the shape of the inputs
          steps,      \* number of values added so far
          lastTime,   \* time of the last value added (0 before the first)
          firstTime,  \* time of the first value added (0 before the first)
          cpt,        \* CChangePointTest
          pt,         \* CSeasonalityTest
          cc,         \* CCalendarTest
          sc,         \* CComponents
          trace,      \* the deliveries of the last operation, in order
          audit,      \* what the component store did in the last operation
          op          \* the last operation and its inputs

vars == <<cfg, steps, lastTime, firstTime, cpt, pt, cc, sc, trace, audit, op>>

----------------------------------------------------------------------------
(* Bounds of the model.                                                    *)

\* The number of values added in one behaviour.
MaxSteps == 3
\* The number of calendar features the calendar test can report.
NumFeatures == 2
\* How many of the inputs of one SAddValue may differ from the quiet input.
MaxEvents == 2
\* The number of times the state is restored in one behaviour.
MaxRestores == 1
\* The number of values added in one behaviour of a series.
MaxSeriesSteps == 24
\* The number of times the errors of a series turn large or small.
MaxFlips == 2
\* The number of values of a series that do not come one bucket after the
\* last.
MaxBreaks == 1
\* The number of seasonal components whose levels are followed.
\* The values added to a decomposition whose window is watched.
MaxWindowSteps == 3

\* The values added to a decomposition whose changes are watched.
MaxChangeSteps == 4

\* The values added to a decomposition whose months are watched.
MaxMonthSteps == 4

MaxRemoveLength == 3
MaxRemoveSteps == 2
MaxSymbolSteps == 4
MaxCopySteps == 3
MaxLevelled == 2
\* The number of calls into a store whose levels are followed.
MaxLevelledSteps == 4
\* The largest denominator of the large error fraction a value is added to.
MaxDenominator == 67108864
\* The number of values added in one behaviour in which the trend is tested.
MaxTrendSteps == 4

----------------------------------------------------------------------------
(* Program constants.                                                      *)

HOUR == 3600
DAY == 86400
WEEK == 604800
MONTH == 4 * WEEK
MAXIMUM_COMPONENTS == 8
MINIMUM_WINDOW_BUCKET_LENGTH == HOUR

\* Change detector test state machine.
CD_TEST == 0
CD_NOT_TESTING == 1
CD_ERROR == 2
CD_DISABLE == 0
CD_RESET == 1
\* A table in which CD_RESET restarts a test that was disabled.
CD_TRANSITION_FUNCTION_ResetEnables ==
    << <<CD_NOT_TESTING, CD_NOT_TESTING, CD_ERROR>>,
       <<CD_TEST, CD_TEST, CD_TEST>> >>

CD_TRANSITION_FUNCTION ==
    << <<CD_NOT_TESTING, CD_NOT_TESTING, CD_ERROR>>,
       <<CD_TEST, CD_NOT_TESTING, CD_TEST>> >>

\* Seasonality test state machine.
PT_INITIAL == 0
PT_TEST == 1
PT_NOT_TESTING == 2
PT_ERROR == 3
PT_NEW_VALUE == 0
PT_RESET == 1
\* A table in which PT_NEW_VALUE leaves PT_ERROR.
PT_TRANSITION_FUNCTION_NewValueLeavesError ==
    << <<PT_TEST, PT_TEST, PT_NOT_TESTING, PT_INITIAL>>,
       <<PT_INITIAL, PT_INITIAL, PT_NOT_TESTING, PT_INITIAL>> >>

PT_TRANSITION_FUNCTION ==
    << <<PT_TEST, PT_TEST, PT_NOT_TESTING, PT_ERROR>>,
       <<PT_INITIAL, PT_INITIAL, PT_NOT_TESTING, PT_INITIAL>> >>

\* Calendar cyclic test state machine.
CC_INITIAL == 0
CC_TEST == 1
CC_NOT_TESTING == 2
CC_ERROR == 3
CC_NEW_VALUE == 0
CC_RESET == 1
\* A table in which CC_RESET takes CC_NOT_TESTING to CC_INITIAL.
CC_TRANSITION_FUNCTION_ResetEnables ==
    << <<CC_TEST, CC_TEST, CC_NOT_TESTING, CC_ERROR>>,
       <<CC_INITIAL, CC_INITIAL, CC_INITIAL, CC_INITIAL>> >>

CC_TRANSITION_FUNCTION ==
    << <<CC_TEST, CC_TEST, CC_NOT_TESTING, CC_ERROR>>,
       <<CC_INITIAL, CC_INITIAL, CC_NOT_TESTING, CC_INITIAL>> >>

\* Components state machine.
SC_NEW_COMPONENTS == 0
SC_NORMAL == 1
SC_DISABLED == 2
SC_ERROR == 3
SC_ADDED_COMPONENTS == 0
SC_INTERPOLATED == 1
SC_RESET == 2
\* A table in which SC_RESET does not leave SC_DISABLED.
SC_TRANSITION_FUNCTION_DisabledForGood ==
    << <<SC_NEW_COMPONENTS, SC_NEW_COMPONENTS, SC_DISABLED, SC_ERROR>>,
       <<SC_NORMAL, SC_NORMAL, SC_DISABLED, SC_ERROR>>,
       <<SC_NORMAL, SC_NORMAL, SC_DISABLED, SC_NORMAL>> >>

\* A table in which SC_INTERPOLATED is an error in SC_NORMAL.
SC_TRANSITION_FUNCTION_InterpolatedTwice ==
    << <<SC_NEW_COMPONENTS, SC_NEW_COMPONENTS, SC_DISABLED, SC_ERROR>>,
       <<SC_NORMAL, SC_ERROR, SC_DISABLED, SC_ERROR>>,
       <<SC_NORMAL, SC_NORMAL, SC_NORMAL, SC_NORMAL>> >>

SC_TRANSITION_FUNCTION ==
    << <<SC_NEW_COMPONENTS, SC_NEW_COMPONENTS, SC_DISABLED, SC_ERROR>>,
       <<SC_NORMAL, SC_NORMAL, SC_DISABLED, SC_ERROR>>,
       <<SC_NORMAL, SC_NORMAL, SC_NORMAL, SC_NORMAL>> >>

\* core::CStateMachine::apply: the table is indexed by symbol, then by state.
MachineApply(table, symbol, state) == table[symbol + 1][state + 1]

----------------------------------------------------------------------------
(* Arithmetic helpers.                                                     *)

Min(a, b) == IF a < b THEN a ELSE b
Max(a, b) == IF a > b THEN a ELSE b

\* common::CIntegerTools::floor and ceil, for a positive multiple.
Floor(x, m) == x - (x % m)
Ceil(x, m) == IF x % m = 0 THEN x ELSE x - (x % m) + m

RECURSIVE GCD(_, _)
GCD(a, b) == IF b = 0 THEN a ELSE GCD(b, a % b)

\* The subsequence of s at the positions where mask is FALSE
\* (common::CSetTools::simultaneousRemoveIf with the predicate on mask).
RECURSIVE RemoveIf(_, _)
RemoveIf(mask, s) ==
    IF s = <<>> THEN <<>>
    ELSE (IF Head(mask) THEN <<>> ELSE <<Head(s)>>) \o RemoveIf(Tail(mask), Tail(s))

\* Whether s is a subsequence of t (s is t with some elements left out).
RECURSIVE IsSubSeq(_, _)
IsSubSeq(s, t) ==
    IF s = <<>> THEN TRUE
    ELSE IF t = <<>> THEN FALSE
    ELSE IF Head(s) = Head(t) THEN IsSubSeq(Tail(s), Tail(t))
    ELSE IsSubSeq(s, Tail(t))

----------------------------------------------------------------------------
(* Time.                                                                   *)

\* std::numeric_limits<core_t::TTime>::min() / 2: a time before every time
\* of the model, far enough from the integer range's end to add intervals.
TIME_MIN_HALF == -1000000000

\* core::CTimezone::dateFields: the civil month of a time, 0 to 11, on a
\* calendar of thirty day months.
month(time) == (time \div (30 * DAY)) % 12

\* CSeasonalTime::inWindow for the three windows of the model: 0 is no window,
\* 1 the first five days of each week, 2 the last two.
InSeasonalWindow(window, time) ==
    CASE window = 0 -> TRUE
      [] window = 1 -> (time \div DAY) % 7 < 5
      [] OTHER -> (time \div DAY) % 7 >= 5

\* CCalendarFeature::inWindow: feature f covers the first f days of a month.
InFeatureWindow(feature, time) == (time \div DAY) % 30 < feature

----------------------------------------------------------------------------
(* The messages.  An SAddValue carries, beside its fields, the outcomes of  *)
(* the code it calls back (s_MakePredictor, s_MakeTestForSeasonality, the  *)
(* memory circuit breaker, and the statistics of the values): the record o. *)

\* Registration order of the handlers with the mediator.
H_COMPONENTS == 1
H_CHANGE_POINT_TEST == 2
H_SEASONALITY_TEST == 3
H_CALENDAR_TEST == 4
Handlers == <<H_COMPONENTS, H_CHANGE_POINT_TEST, H_SEASONALITY_TEST, H_CALENDAR_TEST>>

SAddValue(time, lastTime_, firstValueTime, value, occupancy, allowed, o) ==
    [type |-> "AddValue", time |-> time, lastTime |-> lastTime_,
     firstValueTime |-> firstValueTime, value |-> value, occupancy |-> occupancy,
     allowed |-> allowed, o |-> o]

SDetectedSeasonal(time, lastTime_, components, allowed) ==
    [type |-> "DetectedSeasonal", time |-> time, lastTime |-> lastTime_,
     components |-> components, allowed |-> allowed]

SDetectedCalendar(time, lastTime_, feature, allowed) ==
    [type |-> "DetectedCalendar", time |-> time, lastTime |-> lastTime_,
     feature |-> feature, allowed |-> allowed]

SDetectedTrend(allowed) ==
    [type |-> "DetectedTrend", time |-> 0, lastTime |-> 0, allowed |-> allowed]

SDetectedChangePoint(time, lastTime_, change, allowed) ==
    [type |-> "DetectedChangePoint", time |-> time, lastTime |-> lastTime_,
     change |-> change, allowed |-> allowed]

----------------------------------------------------------------------------
(* CComponents: the data.                                                  *)

\* CComponentErrors keeps floating point error statistics.  The model keeps
\* what the component store reads of them: E_CLEAR after clear() (no sample,
\* remove() is false), E_KEEP with samples and remove() false, E_REMOVE with
\* samples and remove() true.
E_CLEAR == "clear"
E_KEEP == "keep"
E_REMOVE == "remove"

\* A CSeasonalComponent: its period, its time window (0 when not windowed),
\* its size (number of buckets) and whether it holds a non finite value.
SeasonalComponent(period, window, size_) ==
    [period |-> period, window |-> window, size |-> size_, bad |-> FALSE]

\* A CCalendarComponent, as CCalendar::add creates it.
CalendarComponent(feature, size_) ==
    [feature |-> feature, size |-> size_, bad |-> FALSE]

\* m_Seasonal and m_Calendar: a null pointer, or the components with their
\* prediction errors, two sequences of the same length.
NoStore == [present |-> FALSE, comps |-> <<>>, errs |-> <<>>]
EmptyStore == [present |-> TRUE, comps |-> <<>>, errs |-> <<>>]

\* CTrendComponent, reduced to the interval it has observed.
NoTrend == [has |-> FALSE, first |-> 0, last |-> 0]

TrendAdd(trend, time) ==
    IF trend.has THEN [trend EXCEPT !.last = time]
    ELSE [has |-> TRUE, first |-> time, last |-> time]

TrendObservedInterval(trend) == IF trend.has THEN trend.last - trend.first ELSE 0

\* CGainController: the regression origin and the number of samples of the
\* mean sum of amplitudes.
GainController_clear(gain) == [origin |-> 0, n |-> 0]

GainController_seed(gain) == [gain EXCEPT !.n = @ + 1]

GainController_add(gain, predictions) ==
    IF predictions > 0 THEN [gain EXCEPT !.n = @ + 1] ELSE gain

GainController_shiftOrigin(gain, time) ==
    LET t == Floor(time, WEEK)
    IN  IF t > gain.origin THEN [gain EXCEPT !.origin = t] ELSE gain

RECURSIVE SumSize(_)
SumSize(comps) == IF comps = <<>> THEN 0 ELSE Head(comps).size + SumSize(Tail(comps))

Seasonal_size(store) == SumSize(store.comps)
Calendar_size(store) == SumSize(store.comps)

Components_size(c) ==
    (IF c.seasonal.present THEN Seasonal_size(c.seasonal) ELSE 0) +
    (IF c.calendar.present THEN Calendar_size(c.calendar) ELSE 0)

Components_maxSize == MAXIMUM_COMPONENTS * cfg.seasonalComponentSize

m_CalendarComponentSize == cfg.seasonalComponentSize \div 3

\* The number of components, whatever their sizes.
NumberSeasonal(c) == Len(c.seasonal.comps)
NumberCalendar(c) == Len(c.calendar.comps)

Calendar_haveComponent(store, feature) ==
    \E i \in 1..Len(store.comps) : store.comps[i].feature = feature

\* The store without the components the mask flags, with their errors.
StoreRemoveIf(store, mask) ==
    [store EXCEPT !.comps = RemoveIf(mask, store.comps),
                  !.errs = RemoveIf(mask, store.errs)]

BadMask(store) == [i \in 1..Len(store.comps) |-> store.comps[i].bad]

AnyBad(store) == \E i \in 1..Len(store.comps) : store.comps[i].bad

\* CSeasonal::removeComponentsWithBadValues and the CCalendar one.
Seasonal_removeComponentsWithBadValues(store) ==
    IF AnyBad(store) THEN StoreRemoveIf(store, BadMask(store)) ELSE store

Calendar_removeComponentsWithBadValues(store) ==
    IF AnyBad(store) THEN StoreRemoveIf(store, BadMask(store)) ELSE store

ClearErrors(store) == [store EXCEPT !.errs = [i \in 1..Len(store.errs) |-> E_CLEAR]]

\* CSeasonal::remove: FALSE, with nothing modified, on a mask of another
\* length than the components.
Seasonal_removeOk(store, mask) == Len(mask) = Len(store.comps)

\* The sequence with the elements at positions i and j exchanged (std::swap).
Swapped(seq, i, j) ==
    [k \in 1..Len(seq) |-> IF k = i THEN seq[j] ELSE IF k = j THEN seq[i] ELSE seq[k]]

\* A loop of remove that exchanges the components and leaves the errors.
RECURSIVE Seasonal_removeLoop_ErrorsStay(_, _, _, _)
Seasonal_removeLoop_ErrorsStay(store, mask, i, end) ==
    IF i > Len(mask)
    THEN [store EXCEPT !.comps = SubSeq(@, 1, end - 1), !.errs = SubSeq(@, 1, end - 1)]
    ELSE Seasonal_removeLoop_ErrorsStay(
             IF i # end
             THEN [store EXCEPT !.comps = Swapped(@, end, i)]
             ELSE store,
             mask, i + 1, IF mask[i] THEN end ELSE end + 1)

\* The loop of CSeasonal::remove from position i on, end being the position
\* after the components kept so far, and the two erases that follow it.
RECURSIVE Seasonal_removeLoop(_, _, _, _)
Seasonal_removeLoop(store, mask, i, end) ==
    IF i > Len(mask)
    THEN [store EXCEPT !.comps = SubSeq(@, 1, end - 1), !.errs = SubSeq(@, 1, end - 1)]
    ELSE Seasonal_removeLoop(
             IF i # end
             THEN [store EXCEPT !.comps = Swapped(@, end, i), !.errs = Swapped(@, end, i)]
             ELSE store,
             mask, i + 1, IF mask[i] THEN end ELSE end + 1)

Seasonal_remove(store, mask) ==
    IF Seasonal_removeOk(store, mask) THEN Seasonal_removeLoop(store, mask, 1, 1) ELSE store

\* CSeasonal::add: the component at the back, with fresh errors.
Seasonal_add(store, component) ==
    [store EXCEPT !.comps = Append(@, component), !.errs = Append(@, E_CLEAR)]

RECURSIVE Seasonal_addAll(_, _)
Seasonal_addAll(store, components) ==
    IF components = <<>> THEN store
    ELSE Seasonal_addAll(Seasonal_add(store, Head(components)), Tail(components))

\* The positions of a sequence of components in ascending order of period,
\* equal periods in their order in the sequence.
RECURSIVE SortedPositions(_, _)
SortedPositions(comps, todo) ==
    IF todo = {} THEN <<>>
    ELSE LET i == CHOOSE k \in todo : \A l \in todo :
                      \/ comps[k].period < comps[l].period
                      \/ comps[k].period = comps[l].period /\ k <= l
         IN  <<i>> \o SortedPositions(comps, todo \ {i})

\* A refreshForNewComponents that leaves the components as they were added.
Seasonal_refreshForNewComponents_AsAdded(store) == store

\* CSeasonal::refreshForNewComponents: components and errors sorted together.
Seasonal_refreshForNewComponents(store) ==
    LET order == SortedPositions(store.comps, 1..Len(store.comps))
    IN  [store EXCEPT !.comps = [i \in 1..Len(order) |-> store.comps[order[i]]],
                      !.errs = [i \in 1..Len(order) |-> store.errs[order[i]]]]

\* CCalendar::add.
Calendar_add(store, feature, size_) ==
    [store EXCEPT !.comps = Append(@, CalendarComponent(feature, size_)),
                  !.errs = Append(@, E_CLEAR)]

\* CSeasonal::estimateSizeChange: the memory of a component is taken to be
\* its size; 0 when the mask has another length than the components.
RECURSIVE MaskedSize(_, _)
MaskedSize(mask, comps) ==
    IF comps = <<>> THEN 0
    ELSE (IF Head(mask) THEN Head(comps).size ELSE 0) + MaskedSize(Tail(mask), Tail(comps))

Seasonal_estimateSizeChange(store, components) ==
    IF Len(components.mask) # Len(store.comps) THEN 0
    ELSE SumSize(components.seasonal) - MaskedSize(components.mask, store.comps)

----------------------------------------------------------------------------
(* CComponents: pruning, interpolation and the state machine.  These run    *)
(* on the context x of one top level operation: x.sc is the component       *)
(* store, x.log the calls of the callbacks, x.due whether some component's  *)
(* shouldInterpolate(time) holds.                                           *)

\* The number of windowed components per window, as CSeasonal::prune counts.
WindowedCount(comps) ==
    [w \in 1..2 |-> Cardinality({i \in 1..Len(comps) : comps[i].window = w})]

\* A prune that does not count down the components left of a window.
RECURSIVE Seasonal_pruneMask_Uncounted(_, _, _)
Seasonal_pruneMask_Uncounted(store, windowed, i) ==
    IF i > Len(store.comps) THEN <<>>
    ELSE LET w == store.comps[i].window
             candidate == IF w = 0 THEN TRUE ELSE windowed[w] > 1
         IN  <<candidate /\ store.errs[i] = E_REMOVE>> \o
             Seasonal_pruneMask_Uncounted(store, windowed, i + 1)

\* The remove mask of CSeasonal::prune from position i on: a component goes
\* when its errors say so and it is not the last one of its window.
RECURSIVE Seasonal_pruneMask(_, _, _)
Seasonal_pruneMask(store, windowed, i) ==
    IF i > Len(store.comps) THEN <<>>
    ELSE LET w == store.comps[i].window
             candidate == IF w = 0 THEN TRUE ELSE windowed[w] > 1
             remove == candidate /\ store.errs[i] = E_REMOVE
             windowed_ == IF remove /\ w # 0
                          THEN [windowed EXCEPT ![w] = @ - 1] ELSE windowed
         IN  <<remove>> \o Seasonal_pruneMask(store, windowed_, i + 1)

Seasonal_prune(store) ==
    IF Len(store.comps) > 1
    THEN StoreRemoveIf(store, Seasonal_pruneMask(store, WindowedCount(store.comps), 1))
    ELSE store

Calendar_prune(store) ==
    StoreRemoveIf(store, [i \in 1..Len(store.errs) |-> store.errs[i] = E_REMOVE])

\* CComponents::shiftOrigin: the time is moved back by DAY / decayRate / 2.
Components_shiftOrigin(c, time) ==
    [c EXCEPT !.gain = GainController_shiftOrigin(
                           @, time - (DAY * cfg.inverseDecayRate) \div 2)]

\* CComponents::canonicalize: the origin shift, then the pruning; a store
\* pruned to nothing is destroyed.
Components_canonicalize(c, time) ==
    LET c1 == Components_shiftOrigin(c, time)
        seasonal == IF c1.seasonal.present THEN Seasonal_prune(c1.seasonal) ELSE NoStore
        calendar == IF c1.calendar.present THEN Calendar_prune(c1.calendar) ELSE NoStore
    IN  [c1 EXCEPT !.seasonal = IF seasonal.comps = <<>> THEN NoStore ELSE seasonal,
                   !.calendar = IF calendar.comps = <<>> THEN NoStore ELSE calendar]

Components_shouldInterpolate(x) ==
    \/ x.sc.machine = SC_NEW_COMPONENTS
    \/ x.sc.seasonal.present /\ x.sc.seasonal.comps # <<>> /\ x.due
    \/ x.sc.calendar.present /\ x.sc.calendar.comps # <<>> /\ x.due

\* A clear that also stops using the trend for prediction.
Components_clear_Flag(c) ==
    [c EXCEPT !.trend = NoTrend, !.seasonal = NoStore, !.calendar = NoStore,
              !.usingTrend = FALSE]

\* The component store with m_Trend cleared and both stores destroyed.
Components_clear(c) ==
    [c EXCEPT !.trend = NoTrend, !.seasonal = NoStore, !.calendar = NoStore]

\* interpolate's removal of the seasonal components with bad values: the
\* change callback is called, with no residuals, when there was one.
Components_removeBadSeasonal(x) ==
    IF x.sc.seasonal.present
    THEN [x EXCEPT
             !.sc.seasonal = Seasonal_removeComponentsWithBadValues(@),
             !.log = IF AnyBad(x.sc.seasonal) THEN Append(@, "callback()") ELSE @]
    ELSE x

\* The same for the calendar components.
Components_removeBadCalendar(x) ==
    IF x.sc.calendar.present
    THEN [x EXCEPT
             !.sc.calendar = Calendar_removeComponentsWithBadValues(@),
             !.log = IF AnyBad(x.sc.calendar) THEN Append(@, "callback()") ELSE @]
    ELSE x

RECURSIVE Components_apply(_, _, _)
RECURSIVE Components_interpolate(_, _)
RECURSIVE Components_interpolateCanonical(_, _)
RECURSIVE Components_applied(_, _, _)

\* The switch of apply on the new state of the machine; x.moves lists what
\* m_Machine.apply was called with and the state it left.
Components_applied(x, old, m) ==
    IF x.sc.machine # old
    THEN CASE x.sc.machine \in {SC_NORMAL, SC_NEW_COMPONENTS} -> Components_interpolate(x, m)
           [] x.sc.machine = SC_DISABLED -> [x EXCEPT !.sc = Components_clear(@)]
           [] OTHER -> Components_apply(x, SC_RESET, m)
    ELSE x

Components_apply(x, symbol, m) ==
    Components_applied(
        [x EXCEPT !.sc = [(IF symbol = SC_RESET THEN Components_clear(@) ELSE @)
                             EXCEPT !.machine = MachineApply(SC_TRANSITION_FUNCTION,
                                                             symbol, x.sc.machine)],
                  !.moves = Append(@, <<x.sc.machine, symbol,
                                        MachineApply(SC_TRANSITION_FUNCTION,
                                                     symbol, x.sc.machine)>>)],
        x.sc.machine, m)

\* An interpolate that does not apply SC_INTERPOLATED.
Components_interpolateCanonical_Stays(x, m) ==
    IF Components_shouldInterpolate(x)
    THEN [Components_removeBadCalendar(Components_removeBadSeasonal(x)) EXCEPT !.due = FALSE]
    ELSE x

\* The part of interpolate that follows canonicalize.
Components_interpolateCanonical(x, m) ==
    IF Components_shouldInterpolate(x)
    THEN Components_apply(
             [Components_removeBadCalendar(Components_removeBadSeasonal(x))
                 EXCEPT !.due = FALSE],
             SC_INTERPOLATED, m)
    ELSE x

Components_interpolate(x, m) ==
    CASE x.sc.machine \in {SC_NORMAL, SC_NEW_COMPONENTS} ->
             Components_interpolateCanonical(
                 [x EXCEPT !.sc = Components_canonicalize(@, m.time)], m)
      [] x.sc.machine = SC_DISABLED -> x
      [] OTHER -> Components_apply(x, SC_RESET, m)

----------------------------------------------------------------------------
(* CComponents: adding components and the handlers of the Detected          *)
(* messages.  A seasonal decomposition is a record: mask, the components    *)
(* to remove; seasonal, the components to add; start and end, the interval  *)
(* of the values its trend was fitted to.                                   *)

\* The number of times the loop of addSeasonalComponents seeds the gain
\* controller: once per bucket length from startTime up to endTime.
SeedCount(startTime, endTime) ==
    IF endTime > startTime
    THEN Ceil(endTime - startTime, cfg.bucketLength) \div cfg.bucketLength
    ELSE 0

\* addSeasonalComponents going on when CSeasonal::remove refuses the mask.
Components_addSeasonalComponents_Unchecked(x, components, allowed) ==
    IF ~allowed /\ Seasonal_estimateSizeChange(x.sc.seasonal, components) > 0
    THEN x
    ELSE [x EXCEPT
             !.sc.seasonal =
                 ClearErrors(Seasonal_refreshForNewComponents(
                     Seasonal_addAll(IF Seasonal_removeOk(@, components.mask)
                                     THEN Seasonal_remove(@, components.mask) ELSE @,
                                     components.seasonal))),
             !.sc.calendar = ClearErrors(@),
             !.sc.gain = [origin |-> 0, n |-> SeedCount(components.start, components.end)],
             !.sc.trend = [has |-> components.end > components.start,
                           first |-> components.start, last |-> components.end],
             !.sc.usingTrend = TRUE,
             !.log = @ \o [i \in 1..Len(components.seasonal) |-> "annotate(seasonal)"] \o
                     <<"gain.clear", "trend.fit", "callback(residuals)">>]

Components_addSeasonalComponents(x, components, allowed) ==
    LET c == x.sc
    IN  IF ~allowed /\ Seasonal_estimateSizeChange(c.seasonal, components) > 0
        THEN x
        ELSE IF ~Seasonal_removeOk(c.seasonal, components.mask)
        THEN x
        ELSE LET removed == Seasonal_remove(c.seasonal, components.mask)
                 added == Seasonal_addAll(removed, components.seasonal)
                 sorted == Seasonal_refreshForNewComponents(added)
                 annotations ==
                     (IF components.seasonal = <<>>
                      THEN <<"annotate(removed all seasonality)">> ELSE <<>>) \o
                     [i \in 1..Len(components.seasonal) |-> "annotate(seasonal)"]
             IN  [x EXCEPT
                     !.sc.seasonal = ClearErrors(sorted),
                     !.sc.calendar = ClearErrors(@),
                     !.sc.gain = [origin |-> 0,
                                  n |-> SeedCount(components.start, components.end)],
                     !.sc.trend = [has |-> components.end > components.start,
                                   first |-> components.start,
                                   last |-> components.end],
                     !.sc.usingTrend = TRUE,
                     !.log = @ \o annotations \o
                             <<"gain.clear", "trend.fit", "callback(residuals)">>]

\* addCalendarComponent without the test of the memory circuit breaker.
Components_addCalendarComponent_Always(x, feature, allowed) ==
    [x EXCEPT !.sc.calendar = Calendar_add(@, feature, m_CalendarComponentSize),
              !.log = Append(@, "annotate(calendar)")]

Components_addCalendarComponent(x, feature, allowed) ==
    IF ~allowed
    THEN x
    ELSE [x EXCEPT !.sc.calendar = Calendar_add(@, feature, m_CalendarComponentSize),
                   !.log = Append(@, "annotate(calendar)")]

Components_handleDetectedSeasonal(x, m) ==
    IF Components_size(x.sc) + cfg.seasonalComponentSize > Components_maxSize
    THEN x
    ELSE CASE x.sc.machine \in {SC_NORMAL, SC_NEW_COMPONENTS} ->
                 LET x1 == IF x.sc.seasonal.present
                           THEN x ELSE [x EXCEPT !.sc.seasonal = EmptyStore]
                     x2 == Components_addSeasonalComponents(x1, m.components, m.allowed)
                 IN  Components_apply(x2, SC_ADDED_COMPONENTS, m)
           [] x.sc.machine = SC_DISABLED -> x
           [] OTHER -> Components_apply(x, SC_RESET, m)

\* handle(SDetectedCalendar) without the comparison of size() with maxSize().
Components_handleDetectedCalendar_NoBudget(x, m) ==
    CASE x.sc.machine \in {SC_NORMAL, SC_NEW_COMPONENTS} ->
             IF Calendar_haveComponent(x.sc.calendar, m.feature)
             THEN x
             ELSE Components_apply(
                      Components_addCalendarComponent(
                          IF x.sc.calendar.present
                          THEN x ELSE [x EXCEPT !.sc.calendar = EmptyStore],
                          m.feature, m.allowed),
                      SC_ADDED_COMPONENTS, m)
      [] x.sc.machine = SC_DISABLED -> x
      [] OTHER -> Components_apply(x, SC_RESET, m)

\* handle(SDetectedCalendar) not asking haveComponent.
Components_handleDetectedCalendar_Again(x, m) ==
    IF Components_size(x.sc) + m_CalendarComponentSize > Components_maxSize
    THEN x
    ELSE CASE x.sc.machine \in {SC_NORMAL, SC_NEW_COMPONENTS} ->
                 Components_apply(
                     Components_addCalendarComponent(
                         IF x.sc.calendar.present
                         THEN x ELSE [x EXCEPT !.sc.calendar = EmptyStore],
                         m.feature, m.allowed),
                     SC_ADDED_COMPONENTS, m)
           [] x.sc.machine = SC_DISABLED -> x
           [] OTHER -> Components_apply(x, SC_RESET, m)

Components_handleDetectedCalendar(x, m) ==
    IF Components_size(x.sc) + m_CalendarComponentSize > Components_maxSize
    THEN x
    ELSE CASE x.sc.machine \in {SC_NORMAL, SC_NEW_COMPONENTS} ->
                 LET x1 == IF x.sc.calendar.present
                           THEN x ELSE [x EXCEPT !.sc.calendar = EmptyStore]
                 IN  IF Calendar_haveComponent(x1.sc.calendar, m.feature)
                     THEN x1
                     ELSE Components_apply(
                              Components_addCalendarComponent(x1, m.feature, m.allowed),
                              SC_ADDED_COMPONENTS, m)
           [] x.sc.machine = SC_DISABLED -> x
           [] OTHER -> Components_apply(x, SC_RESET, m)

\* A change is a record: kind, what was detected or "undo"; clears, whether
\* apply(component) answers true for the seasonal components.
Seasonal_apply(store, change) ==
    IF change.clears THEN ClearErrors(store) ELSE store

\* A handler of the change that a disabled component store does not run.
Components_handleDetectedChangePoint_Gated(x, m) ==
    IF x.sc.machine = SC_DISABLED THEN x
    ELSE LET x1 == IF x.sc.seasonal.present
                   THEN [x EXCEPT !.sc.seasonal = Seasonal_apply(@, m.change)] ELSE x
             x2 == IF ~x1.sc.usingTrend
                   THEN [x1 EXCEPT !.sc.usingTrend = TRUE,
                                   !.log = Append(@, "callback(change)")]
                   ELSE x1
         IN  [x2 EXCEPT !.log = Append(@, "annotate(change)")]

Components_handleDetectedChangePoint(x, m) ==
    LET x1 == IF x.sc.seasonal.present
              THEN [x EXCEPT !.sc.seasonal = Seasonal_apply(@, m.change)] ELSE x
        x2 == IF ~x1.sc.usingTrend
              THEN [x1 EXCEPT !.sc.usingTrend = TRUE,
                              !.log = Append(@, "callback(change)")]
              ELSE x1
    IN  [x2 EXCEPT !.log = Append(@, "annotate(change)")]

----------------------------------------------------------------------------
(* The mediator.  x.msgs lists the messages forwarded in the operation,     *)
(* x.trace the entries into and the returns from handle, x.audit what each  *)
(* overriding handler found and left of its own object.                     *)

RECURSIVE Mediator_deliver(_, _, _, _, _)

\* What the trace keeps of a forwarded message: who forwarded it (0 is the
\* caller of the decomposition) while handling which message, how deep.
MessageInfo(m, by, parent, depth) ==
    [type |-> m.type, by |-> by, parent |-> parent, depth |-> depth,
     allowed |-> m.allowed,
     payload |-> CASE m.type = "DetectedSeasonal" -> m.components
                   [] m.type = "DetectedCalendar" -> [feature |-> m.feature]
                   [] m.type = "DetectedChangePoint" -> m.change
                   [] m.type = "AddValue" ->
                          [time |-> m.time, value |-> m.value,
                           prediction |-> m.o.prediction]
                   [] OTHER -> [time |-> m.time]]

\* CMediator::forward: handle(message) of every handler, in the order of
\* m_Handlers.  The message gets the next identifier.
Mediator_forward(x, m, by, parent, depth) ==
    Mediator_deliver([x EXCEPT !.msgs = Append(@, MessageInfo(m, by, parent, depth))],
                     m, Len(x.msgs) + 1, depth, 1)

----------------------------------------------------------------------------
(* CChangePointTest.                                                       *)

ChangePointTest_windowBucketLength == Max(MINIMUM_WINDOW_BUCKET_LENGTH, cfg.bucketLength)

ChangePointTest_windowSize == Max((4 * DAY) \div ChangePointTest_windowBucketLength, 32)

ChangePointTest_startOfWindowBucket(time) == Floor(time, ChangePointTest_windowBucketLength)

\* The occupancy is a percentage: min(1 / occupancy, 2) * length + 0.5,
\* truncated, then rounded up to a whole number of window buckets.
ChangePointTest_minimumChangeLength(occupancy) ==
    LET length == Max(30 * HOUR, 5 * ChangePointTest_windowBucketLength)
        scaled == (Min(10000 \div occupancy, 200) * (length \div 100)) +
                  ((Min(10000 \div occupancy, 200) * (length % 100) + 50) \div 100)
    IN  Ceil(scaled, ChangePointTest_windowBucketLength)

ChangePointTest_maximumIntervalToDetectChange(occupancy) ==
    (5 * ChangePointTest_minimumChangeLength(occupancy)) \div 3

ChangePointTest_bucketsStartTime(time, bucketsLength) ==
    ChangePointTest_startOfWindowBucket(time) -
        (bucketsLength - 1) * ChangePointTest_windowBucketLength

\* A bucket of m_Window is a mean accumulator: the number of quantities
\* added to it (each with weight 1) and their sum.
EmptyBucket == [count |-> 0, sum |-> 0]

EmptyWindow(n) == [i \in 1..n |-> EmptyBucket]

\* m_LargeErrorFraction, a fraction num / den: 0 is [num |-> 0, den |-> 1].
ZeroFraction == [num |-> 0, den |-> 1]

\* The update with beta the bucket length over two window bucket lengths.
LargeErrorFractionUpdate_Half(f, large) ==
    LET g == GCD(cfg.bucketLength, 2 * ChangePointTest_windowBucketLength)
        bn == cfg.bucketLength \div g
        bd == (2 * ChangePointTest_windowBucketLength) \div g
        num == (bd - bn) * f.num + (IF large THEN bn * f.den ELSE 0)
    IN  IF num = 0 THEN ZeroFraction ELSE [num |-> num, den |-> bd * f.den]

\* alpha * m_LargeErrorFraction + beta * indicator, with beta the bucket
\* length over four window bucket lengths.
LargeErrorFractionUpdate(f, large) ==
    LET b == cfg.bucketLength
        w == 4 * ChangePointTest_windowBucketLength
        g == GCD(b, w)
        bn == b \div g
        bd == w \div g
        num == (bd - bn) * f.num + (IF large THEN bn * f.den ELSE 0)
    IN  IF num = 0 THEN ZeroFraction ELSE [num |-> num, den |-> bd * f.den]

ChangePointTest_mayHaveChanged(t) == 2 * t.lef.num > t.lef.den

\* CHANGE_COUNT_WEIGHT, in tenths.
CHANGE_COUNT_WEIGHT_TENTHS == 1

\* countWeight with 1 + 1 where it has 1 + min(1, -adjustment).
ChangePointTest_countWeightLessOne_Double(t) ==
    IF t.adjustment > t.minimum /\ 4 * t.lef.num > t.lef.den
    THEN (CHANGE_COUNT_WEIGHT_TENTHS - 10) * cfg.bucketLength
    ELSE 10 * cfg.bucketLength

\* m_TotalCountWeightAdjustment and m_MinimumTotalCountWeightAdjustment are
\* kept as whole numbers of the unit 1 / (10 * m_BucketLength), in which the
\* count weight one is 10 * m_BucketLength.
\* countWeight(time) less one, in that unit.
ChangePointTest_countWeightLessOne(t) ==
    IF t.adjustment > t.minimum /\ 4 * t.lef.num > t.lef.den
    THEN (CHANGE_COUNT_WEIGHT_TENTHS - 10) * cfg.bucketLength
    ELSE Min(10 * cfg.bucketLength, -t.adjustment)

\* The minimum kept when the adjustment is below it.
ChangePointTest_updatedMinimum_Kept(t, m) ==
    IF t.adjustment = 0
    THEN [t EXCEPT !.minimum =
             (CHANGE_COUNT_WEIGHT_TENTHS - 10) *
                 ChangePointTest_maximumIntervalToDetectChange(m.occupancy)]
    ELSE t

ChangePointTest_updatedMinimum(t, m) ==
    LET t1 == IF t.adjustment = 0
              THEN [t EXCEPT !.minimum =
                       (CHANGE_COUNT_WEIGHT_TENTHS - 10) *
                           ChangePointTest_maximumIntervalToDetectChange(m.occupancy)]
              ELSE t
    IN  IF t1.adjustment < t1.minimum THEN [t1 EXCEPT !.minimum = 0] ELSE t1

\* (time - lastTime) / m_BucketLength * weight, the whole buckets and the
\* rest of the interval apart.
Elapsed(interval, weight) ==
    (interval \div cfg.bucketLength) * weight +
        ((interval % cfg.bucketLength) * weight) \div cfg.bucketLength

\* The update without the std::min with 0.
ChangePointTest_updateTotalCountWeights_Unclamped(t, m) ==
    ChangePointTest_updatedMinimum(
        [t EXCEPT !.adjustment =
            @ + Elapsed(m.time - m.lastTime, ChangePointTest_countWeightLessOne(t))],
        m)

ChangePointTest_updateTotalCountWeights(t, m) ==
    ChangePointTest_updatedMinimum(
        [t EXCEPT !.adjustment =
            Min(@ + Elapsed(m.time - m.lastTime, ChangePointTest_countWeightLessOne(t)), 0)],
        m)

ChangePointTest_shouldTest(t, time, occupancy) ==
    /\ ~t.undoable
    /\ \/ time > t.lastTestTime + ChangePointTest_minimumChangeLength(occupancy)
       \/ /\ time > t.lastTestTime + 3 * ChangePointTest_windowBucketLength
          /\ time < t.lastCandidateChangePointTime +
                        ChangePointTest_maximumIntervalToDetectChange(occupancy)
          /\ time > t.lastCandidateChangePointTime +
                        ChangePointTest_minimumChangeLength(occupancy)

\* CChangePointTest::CChangePointTest.
ChangePointTest_new ==
    [machine |-> CD_TEST,
     window |-> EmptyWindow(ChangePointTest_windowSize),
     residual |-> EmptyBucket,
     lef |-> ZeroFraction,
     adjustment |-> 0,
     minimum |-> 0,
     lastTestTime |-> TIME_MIN_HALF,
     lastChangePointTime |-> TIME_MIN_HALF,
     lastCandidateChangePointTime |-> TIME_MIN_HALF,
     undoable |-> FALSE]

ChangePointTest_reset(t, time) ==
    [t EXCEPT !.window = EmptyWindow(Len(t.window)),
              !.residual = EmptyBucket,
              !.lef = ZeroFraction,
              !.adjustment = 0,
              !.minimum = 0,
              !.lastCandidateChangePointTime =
                  time - 4 * ChangePointTest_maximumIntervalToDetectChange(100)]

RECURSIVE ChangePointTest_apply(_, _)
ChangePointTest_apply(t, symbol) ==
    LET old == t.machine
        state == MachineApply(CD_TRANSITION_FUNCTION, symbol, old)
        t1 == [t EXCEPT !.machine = state]
    IN  IF state # old
        THEN CASE state = CD_TEST ->
                      [t1 EXCEPT !.window = EmptyWindow(ChangePointTest_windowSize),
                                 !.lef = ZeroFraction]
               [] state = CD_NOT_TESTING ->
                      [t1 EXCEPT !.window = <<>>, !.lef = ZeroFraction]
               [] OTHER -> ChangePointTest_apply(t1, CD_RESET)
        ELSE t1

\* The number of buckets from the first one that holds a value to the end
\* of the window.
PopulatedLength(window) ==
    LET filled == {i \in DOMAIN window : window[i].count > 0}
    IN  IF filled = {} THEN 0
        ELSE Len(window) + 1 - (CHOOSE i \in filled : \A j \in filled : i <= j)

\* An accumulator after the quantity was added to it with weight 1.
BucketAdd(bucket, quantity) ==
    [count |-> bucket.count + 1, sum |-> bucket.sum + quantity]

\* The window after steps_ empty buckets were pushed at its back, each
\* overwriting the bucket at its front, and the quantity was added to the
\* last.
WindowPushAndAdd(window, steps_, quantity) ==
    LET pushed == SubSeq(window, steps_ + 1, Len(window)) \o EmptyWindow(steps_)
    IN  [pushed EXCEPT ![Len(pushed)] = BucketAdd(@, quantity)]

\* testForCandidateChange without the delay of three days.
ChangePointTest_testForCandidateChange_NoDelay(t, m) ==
    LET mayHaveChangedBefore == ChangePointTest_mayHaveChanged(t)
        t1 == [t EXCEPT !.lef = LargeErrorFractionUpdate(@, m.o.largeError)]
    IN  IF /\ ChangePointTest_mayHaveChanged(t1)
           /\ ~mayHaveChangedBefore
           /\ m.time > t.lastCandidateChangePointTime +
                  2 * ChangePointTest_maximumIntervalToDetectChange(m.occupancy)
        THEN [t1 EXCEPT !.lastCandidateChangePointTime = m.time]
        ELSE t1

ChangePointTest_testForCandidateChange(t, m) ==
    IF m.time < m.firstValueTime + 3 * DAY
    THEN t
    ELSE LET mayHaveChangedBefore == ChangePointTest_mayHaveChanged(t)
             t1 == [t EXCEPT !.lef = LargeErrorFractionUpdate(@, m.o.largeError)]
         IN  IF /\ ChangePointTest_mayHaveChanged(t1)
                /\ ~mayHaveChangedBefore
                /\ m.time > t.lastCandidateChangePointTime +
                       2 * ChangePointTest_maximumIntervalToDetectChange(m.occupancy)
             THEN [t1 EXCEPT !.lastCandidateChangePointTime = m.time]
             ELSE t1

\* testUndoLastChange without the reset of a change older than
\* maximumIntervalToDetectChange.
ChangePointTest_testUndoLastChange_Keeps(x, m, id, depth) ==
    IF /\ x.cpt.undoable
       /\ m.time - x.cpt.lastChangePointTime >
              ChangePointTest_minimumChangeLength(m.occupancy) \div 10
       /\ m.o.undo
    THEN [Mediator_forward(x, SDetectedChangePoint(m.time, m.lastTime,
                                                   [kind |-> "undo", clears |-> FALSE],
                                                   m.allowed),
                           H_CHANGE_POINT_TEST, id, depth + 1)
             EXCEPT !.cpt.undoable = FALSE]
    ELSE x

\* testUndoLastChange undoing the change whatever its age.
ChangePointTest_testUndoLastChange_Early(x, m, id, depth) ==
    IF ~x.cpt.undoable
    THEN x
    ELSE IF m.o.undo
    THEN [Mediator_forward([x EXCEPT !.log = Append(@, "shouldUndo()")],
                           SDetectedChangePoint(m.time, m.lastTime,
                                                [kind |-> "undo", clears |-> FALSE],
                                                m.allowed),
                           H_CHANGE_POINT_TEST, id, depth + 1)
             EXCEPT !.cpt.undoable = FALSE]
    ELSE IF m.time - x.cpt.lastChangePointTime >
                ChangePointTest_maximumIntervalToDetectChange(m.occupancy)
    THEN [x EXCEPT !.cpt.undoable = FALSE]
    ELSE x

\* A change is a record: kind, what was detected or "undo"; clears, whether
\* it modifies the seasonal components it is applied to.  The log has
\* shouldUndo() when m_UndoableLastChange->shouldUndo() was called and true,
\* and not shouldUndo() when it was called and false.
ChangePointTest_testUndoLastChange(x, m, id, depth) ==
    LET t == x.cpt
        old == m.time - t.lastChangePointTime >
                   ChangePointTest_minimumChangeLength(m.occupancy) \div 10
        x0 == IF old
              THEN [x EXCEPT !.log = Append(@, IF m.o.undo THEN "shouldUndo()"
                                                           ELSE "not shouldUndo()")]
              ELSE x
    IN  IF ~t.undoable
        THEN x
        ELSE IF old /\ m.o.undo
        THEN LET x1 == Mediator_forward(
                           x0, SDetectedChangePoint(m.time, m.lastTime,
                                                    [kind |-> "undo", clears |-> FALSE],
                                                    m.allowed),
                           H_CHANGE_POINT_TEST, id, depth + 1)
             IN  [x1 EXCEPT !.cpt.undoable = FALSE]
        ELSE IF m.time - t.lastChangePointTime >
                    ChangePointTest_maximumIntervalToDetectChange(m.occupancy)
        THEN [x0 EXCEPT !.cpt.undoable = FALSE]
        ELSE x0

\* What the log has of the change changeTest.test() returned.
ChangeLogged(change) ==
    CASE change = "level" -> "change: level"
      [] change = "scale" -> "change: scale"
      [] change = "small" -> "change: small"
      [] OTHER -> "change: none"

\* testForChange with a shouldTest that does not read m_UndoableLastChange.
ChangePointTest_testForChange_WhilePending(x, m, id, depth) ==
    LET t == x.cpt
        length == PopulatedLength(t.window)
        t1 == [t EXCEPT !.lastTestTime = m.time]
        x0 == [x EXCEPT !.log = Append(@, IF t.undoable THEN "testForChange: undoable"
                                                        ELSE "testForChange")]
        x1 == [x0 EXCEPT !.log = Append(Append(@, "changeTest.test()"),
                                        ChangeLogged(m.o.change))]
    IN  IF ~ChangePointTest_shouldTest([t EXCEPT !.undoable = FALSE], m.time, m.occupancy)
        THEN x0
        ELSE IF ChangePointTest_windowBucketLength * length <=
                    ChangePointTest_minimumChangeLength(m.occupancy)
        THEN x0
        ELSE CASE m.o.change \in {"level", "scale"} ->
                      Mediator_forward(
                          [x1 EXCEPT !.cpt =
                              [t1 EXCEPT
                                  !.lef = ZeroFraction,
                                  !.lastChangePointTime = m.time,
                                  !.undoable = (m.o.change = "level")]],
                          SDetectedChangePoint(m.time, m.lastTime,
                                               [kind |-> m.o.change,
                                                clears |-> m.o.change = "scale"],
                                               m.allowed),
                          H_CHANGE_POINT_TEST, id, depth + 1)
               [] OTHER -> [x1 EXCEPT !.cpt = t1]

\* testForChange forwarding every change the test returns.
ChangePointTest_testForChange_AnyChange(x, m, id, depth) ==
    LET t == x.cpt
        length == PopulatedLength(t.window)
        t1 == [t EXCEPT !.lastTestTime = m.time]
        x0 == [x EXCEPT !.log = Append(@, IF t.undoable THEN "testForChange: undoable"
                                                        ELSE "testForChange")]
        x1 == [x0 EXCEPT !.log = Append(Append(@, "changeTest.test()"),
                                        ChangeLogged(m.o.change))]
    IN  IF ~ChangePointTest_shouldTest(t, m.time, m.occupancy)
        THEN x0
        ELSE IF ChangePointTest_windowBucketLength * length <=
                    ChangePointTest_minimumChangeLength(m.occupancy)
        THEN x0
        ELSE CASE m.o.change \in {"level", "scale", "small"} ->
                      Mediator_forward(
                          [x1 EXCEPT !.cpt =
                              [t1 EXCEPT
                                  !.lef = ZeroFraction,
                                  !.lastChangePointTime = m.time,
                                  !.undoable = (m.o.change = "level")]],
                          SDetectedChangePoint(m.time, m.lastTime,
                                               [kind |-> m.o.change,
                                                clears |-> m.o.change = "scale"],
                                               m.allowed),
                          H_CHANGE_POINT_TEST, id, depth + 1)
               [] OTHER -> [x1 EXCEPT !.cpt = t1]

\* m.o.change is what CTimeSeriesTestForChange finds: "none"; "small", a
\* change that is not large or long enough; "level", an undoable change;
\* "scale", a change that cannot be undone and modifies the components.
\* The log has testForChange at the call, with the undoable change if one is
\* pending, and changeTest.test() and what it returned when it is called.
ChangePointTest_testForChange(x, m, id, depth) ==
    LET t == x.cpt
        length == PopulatedLength(t.window)
        t1 == [t EXCEPT !.lastTestTime = m.time]
        x0 == [x EXCEPT !.log = Append(@, IF t.undoable THEN "testForChange: undoable"
                                                        ELSE "testForChange")]
        x1 == [x0 EXCEPT !.log = Append(Append(@, "changeTest.test()"),
                                        ChangeLogged(m.o.change))]
    IN  IF ~ChangePointTest_shouldTest(t, m.time, m.occupancy)
        THEN x0
        ELSE IF ChangePointTest_windowBucketLength * length <=
                    ChangePointTest_minimumChangeLength(m.occupancy)
        THEN x0
        ELSE CASE m.o.change \in {"level", "scale"} ->
                      Mediator_forward(
                          [x1 EXCEPT !.cpt =
                              [t1 EXCEPT
                                  !.lef = ZeroFraction,
                                  !.lastChangePointTime = m.time,
                                  !.lastCandidateChangePointTime =
                                      Min(@, m.time -
                                             ChangePointTest_maximumIntervalToDetectChange(
                                                 m.occupancy)),
                                  !.undoable = (m.o.change = "level")]],
                          SDetectedChangePoint(m.time, m.lastTime,
                                               [kind |-> m.o.change,
                                                clears |-> m.o.change = "scale"],
                                               m.allowed),
                          H_CHANGE_POINT_TEST, id, depth + 1)
               [] m.o.change = "small" ->
                      [x1 EXCEPT !.cpt =
                          [t1 EXCEPT !.lastCandidateChangePointTime =
                                         ChangePointTest_bucketsStartTime(m.time, length)]]
               [] OTHER -> [x1 EXCEPT !.cpt = t1]

\* handle(SAddValue) doing nothing in CD_ERROR.
ChangePointTest_handleAddValue_NoReset(x, m, id, depth) ==
    IF x.cpt.machine = CD_TEST
    THEN ChangePointTest_testForChange(
             ChangePointTest_testUndoLastChange(
                 [x EXCEPT !.cpt = ChangePointTest_testForCandidateChange(
                                       ChangePointTest_updateTotalCountWeights([@ EXCEPT !.window = WindowPushAndAdd(
                                           @, Min((ChangePointTest_startOfWindowBucket(m.time) -
                                                   ChangePointTest_startOfWindowBucket(m.lastTime))
                                                      \div ChangePointTest_windowBucketLength,
                                                  Len(x.cpt.window)),
                                           m.value),
                                           !.residual = BucketAdd(@, m.value - m.o.prediction)], m),
                                       m)],
                 m, id, depth),
             m, id, depth)
    ELSE x

\* handle(SAddValue) adding value - prediction to the window.
ChangePointTest_handleAddValue_Residual(x, m, id, depth) ==
    CASE x.cpt.machine = CD_TEST ->
             ChangePointTest_testForChange(
                 ChangePointTest_testUndoLastChange(
                     [x EXCEPT !.cpt =
                         ChangePointTest_testForCandidateChange(
                             ChangePointTest_updateTotalCountWeights(
                                 [@ EXCEPT
                                     !.window = WindowPushAndAdd(
                                         @, Min((ChangePointTest_startOfWindowBucket(m.time) -
                                                 ChangePointTest_startOfWindowBucket(m.lastTime))
                                                    \div ChangePointTest_windowBucketLength,
                                                Len(x.cpt.window)),
                                         m.value - m.o.prediction),
                                     !.residual = BucketAdd(@, m.value - m.o.prediction)],
                                 m),
                             m)],
                     m, id, depth),
                 m, id, depth)
      [] x.cpt.machine = CD_NOT_TESTING -> x
      [] OTHER -> [x EXCEPT !.cpt = ChangePointTest_apply(@, CD_RESET)]

\* handle(SAddValue) pushing a bucket for every window bucket that went by.
ChangePointTest_handleAddValue_Unclamped(x, m, id, depth) ==
    LET t == x.cpt
        steps_ == (ChangePointTest_startOfWindowBucket(m.time) -
                   ChangePointTest_startOfWindowBucket(m.lastTime)) \div
                      ChangePointTest_windowBucketLength
    IN  CASE t.machine = CD_TEST ->
                 LET t1 == [t EXCEPT
                               !.window = [SubSeq(@, steps_ + 1, Len(@)) \o EmptyWindow(steps_)
                                              EXCEPT ![Len(@)] = BucketAdd(@, m.value)],
                               !.residual = BucketAdd(@, m.value - m.o.prediction)]
                     t2 == ChangePointTest_testForCandidateChange(
                               ChangePointTest_updateTotalCountWeights(t1, m), m)
                     x1 == ChangePointTest_testUndoLastChange(
                               [x EXCEPT !.cpt = t2], m, id, depth)
                 IN  ChangePointTest_testForChange(x1, m, id, depth)
          [] t.machine = CD_NOT_TESTING -> x
          [] OTHER -> [x EXCEPT !.cpt = ChangePointTest_apply(@, CD_RESET)]

\* A test in CD_TEST has a window of windowSize() buckets.
ChangePointTest_handleAddValue(x, m, id, depth) ==
    LET t == x.cpt
        steps_ == Min((ChangePointTest_startOfWindowBucket(m.time) -
                       ChangePointTest_startOfWindowBucket(m.lastTime)) \div
                          ChangePointTest_windowBucketLength,
                      Len(t.window))
    IN  CASE t.machine = CD_TEST ->
                 LET t1 == [t EXCEPT !.window = WindowPushAndAdd(@, steps_, m.value),
                                     !.residual = BucketAdd(@, m.value - m.o.prediction)]
                     t2 == ChangePointTest_testForCandidateChange(
                               ChangePointTest_updateTotalCountWeights(t1, m), m)
                     x1 == ChangePointTest_testUndoLastChange(
                               [x EXCEPT !.cpt = t2], m, id, depth)
                 IN  ChangePointTest_testForChange(x1, m, id, depth)
          [] t.machine = CD_NOT_TESTING -> x
          [] OTHER -> [x EXCEPT !.cpt = ChangePointTest_apply(@, CD_RESET)]

\* handle(SDetectedSeasonal) resetting only when allocations are allowed.
ChangePointTest_handleDetectedSeasonal_IfAllowed(x, m) ==
    IF m.allowed THEN [x EXCEPT !.cpt = ChangePointTest_reset(@, m.time)] ELSE x

ChangePointTest_handleDetectedSeasonal(x, m) ==
    [x EXCEPT !.cpt = ChangePointTest_reset(@, m.time)]

----------------------------------------------------------------------------
(* CSeasonalityTest.                                                       *)

E_Short == 1
E_Long == 2

\* A row of WINDOW_PARAMETERS.
SParameters(bucketLength, shortestComponent, numberBuckets, minimumResolution, bucketLengths, testSchedule) ==
    [bucketLength |-> bucketLength, shortestComponent |-> shortestComponent,
     numberBuckets |-> numberBuckets, minimumResolution |-> minimumResolution,
     bucketLengths |-> bucketLengths, testSchedule |-> testSchedule]

WINDOW_PARAMETERS ==
    << << SParameters(1, 1, 180, 10, <<1, 5, 10, 30, 60, 300, 600>>, <<>>),
          SParameters(5, 1, 180, 10, <<5, 10, 30, 60, 300, 600>>, <<>>),
          SParameters(10, 1, 180, 10, <<10, 30, 60, 300, 600>>, <<>>),
          SParameters(30, 1, 180, 10, <<30, 60, 300, 600>>, <<>>),
          SParameters(60, 1, 336, 12, <<60, 300, 900, 3600, 7200>>, <<3 * 604800>>),
          SParameters(300, 1, 336, 12, <<300, 900, 3600, 7200>>, <<3 * 604800>>),
          SParameters(600, 1, 336, 12, <<600, 3600, 7200>>, <<3 * 604800>>),
          SParameters(900, 1, 336, 12, <<900, 3600, 7200>>, <<3 * 604800>>),
          SParameters(1200, 1, 336, 12, <<1200, 3600, 7200>>, <<3 * 86400, 3 * 604800>>),
          SParameters(1800, 1, 336, 12, <<1800, 3600, 7200>>, <<3 * 86400, 3 * 604800>>),
          SParameters(3600, 1, 336, 12, <<3600, 7200>>, <<3 * 86400, 604800, 3 * 604800>>),
          SParameters(7200, 1, 336, 12, <<7200, 14400>>, <<3 * 86400, 604800, 3 * 604800>>),
          SParameters(14400, 1, 336, 6, <<14400>>, <<604800, 3 * 604800>>),
          SParameters(21600, 1, 224, 6, <<21600>>, <<604800, 3 * 604800>>),
          SParameters(28800, 1, 168, 6, <<28800>>, <<3 * 604800>>),
          SParameters(43200, 1, 112, 6, <<43200>>, <<4 * 604800>>),
          SParameters(86400, 1, 56, 6, <<86400>>, <<>>) >>,
       << SParameters(1, 30601, 336, 12, <<900, 3600, 7200>>, <<3 * 604800>>),
          SParameters(5, 30601, 336, 12, <<900, 3600, 7200>>, <<3 * 604800>>),
          SParameters(10, 30601, 336, 12, <<900, 3600, 7200>>, <<3 * 604800>>),
          SParameters(30, 30601, 336, 12, <<900, 3600, 7200>>, <<3 * 604800>>),
          SParameters(60, 648001, 156, 6, <<43200, 86400, 604800>>, <<104 * 604800>>),
          SParameters(300, 648001, 156, 6, <<43200, 86400, 604800>>, <<104 * 604800>>),
          SParameters(600, 648001, 156, 6, <<43200, 86400, 604800>>, <<104 * 604800>>),
          SParameters(900, 648001, 156, 6, <<43200, 86400, 604800>>, <<104 * 604800>>),
          SParameters(1200, 648001, 156, 6, <<43200, 86400, 604800>>, <<104 * 604800>>),
          SParameters(1800, 648001, 156, 6, <<43200, 86400, 604800>>, <<104 * 604800>>),
          SParameters(3600, 648001, 156, 6, <<43200, 86400, 604800>>, <<104 * 604800>>),
          SParameters(7200, 648001, 156, 6, <<43200, 86400, 604800>>, <<104 * 604800>>),
          SParameters(14400, 648001, 156, 6, <<43200, 86400, 604800>>, <<104 * 604800>>),
          SParameters(86400, 648001, 156, 6, <<43200, 86400, 604800>>, <<104 * 604800>>),
          SParameters(604800, 648001, 156, 6, <<43200, 86400, 604800>>, <<104 * 604800>>) >> >>

\* CSeasonalityTestParameters::windowParameters: the first row whose bucket
\* length is not less than the job's (std::lower_bound), 0 when there is none.
windowParameters(window, bucketLength) ==
    LET rows == WINDOW_PARAMETERS[window]
        found == {i \in 1..Len(rows) : ~(rows[i].bucketLength < bucketLength)}
    IN  IF found = {} THEN 0
        ELSE CHOOSE i \in found : \A j \in found : i <= j

\* The row windowParameters points to.
ParametersRow(window, bucketLength) ==
    WINDOW_PARAMETERS[window][Max(1, windowParameters(window, bucketLength))]

\* The constructor looks the rows of the job's bucket length up once:
\* cfg.parameters[window] is the position of the row, 0 when there is none.
HaveParameters(window) == cfg.parameters[window] # 0

Parameters(window) == cfg.rows[window]

\* CSeasonalityTestParameters::test.
SeasonalityTestParameters_test(bucketLength) == bucketLength <= 604800

maxBucketLength(window) ==
    IF HaveParameters(window)
    THEN Parameters(window).bucketLengths[Len(Parameters(window).bucketLengths)]
    ELSE 0

\* m_Windows[i]: a null pointer, or a CExpandingWindow: its start time, the
\* index of its current bucket length and the number of values added to it.
NoWindow == [present |-> FALSE, start |-> 0, index |-> 0, n |-> 0]

\* newWindow followed by initialize(time).
SeasonalityTest_newWindow_Unfloored(window, time) ==
    IF HaveParameters(window)
    THEN [present |-> TRUE, start |-> time, index |-> 1, n |-> 0]
    ELSE NoWindow

\* newWindow followed by initialize(floor(time, maxBucketLength)).
SeasonalityTest_newWindow(window, time) ==
    IF HaveParameters(window)
    THEN [present |-> TRUE, start |-> Floor(time, maxBucketLength(window)),
          index |-> 1, n |-> 0]
    ELSE NoWindow

\* CExpandingWindow::needToCompress: the time is at or past the end of the
\* numberBuckets buckets of the current length.
ExpandingWindow_needToCompress(window, w, time) ==
    time >= w.start + Parameters(window).numberBuckets *
                          Parameters(window).bucketLengths[w.index]

\* CExpandingWindow::add: compresses to the next bucket length while needed,
\* starting again from the first one at the time when there is no next.
RECURSIVE ExpandingWindow_add(_, _, _)
ExpandingWindow_add(window, w, time) ==
    IF time < w.start THEN w
    ELSE IF ExpandingWindow_needToCompress(window, w, time)
    THEN IF w.index < Len(Parameters(window).bucketLengths)
         THEN ExpandingWindow_add(window, [w EXCEPT !.index = @ + 1], time)
         ELSE ExpandingWindow_add(
                  window,
                  [w EXCEPT !.index = 1, !.n = 0,
                            !.start = Floor(time, Parameters(window).bucketLengths[1])],
                  time)
    ELSE [w EXCEPT !.n = @ + 1]

SeasonalityTest_shouldTest(t, window, time) ==
    LET w == t.windows[window]
        length == time - w.start
        schedule == Parameters(window).testSchedule
    IN  /\ w.present
        /\ \/ ExpandingWindow_needToCompress(window, w, time)
           \/ \E i \in 1..Len(schedule) :
                  length >= schedule[i] /\ length < schedule[i] + cfg.bucketLength

\* CSeasonalityTest::CSeasonalityTest.
SeasonalityTest_new ==
    [machine |-> IF SeasonalityTestParameters_test(cfg.bucketLength)
                 THEN PT_INITIAL ELSE PT_NOT_TESTING,
     windows |-> <<NoWindow, NoWindow>>]

SeasonalityTest_initialize(t, time) ==
    [t EXCEPT !.windows = <<SeasonalityTest_newWindow(E_Short, time),
                            SeasonalityTest_newWindow(E_Long, time)>>]

RECURSIVE SeasonalityTest_apply(_, _, _)
SeasonalityTest_apply(t, symbol, m) ==
    LET old == t.machine
        state == MachineApply(PT_TRANSITION_FUNCTION, symbol, old)
        t1 == [t EXCEPT !.machine = state]
    IN  IF state # old
        THEN CASE state = PT_TEST ->
                      IF \A i \in 1..2 : ~t1.windows[i].present
                      THEN SeasonalityTest_initialize(t1, m.time) ELSE t1
               [] state = PT_INITIAL -> SeasonalityTest_initialize(t1, m.time)
               [] state = PT_NOT_TESTING -> [t1 EXCEPT !.windows = <<NoWindow, NoWindow>>]
               [] OTHER -> SeasonalityTest_apply(t1, PT_RESET, m)
        ELSE t1

\* What the test for seasonality built by makeTestForSeasonality returns is
\* an input, one of these shapes, made for the n components modelled when
\* the test runs.  The test may add up to MAXIMUM_COMPONENTS - n components,
\* of size 2 S / 3 to 2 S.
DecompositionShapes ==
    {"add", "replace", "weekdays", "remove", "fillSmall", "fillLarge", "mismatch"}

AllMask(n, b) == [i \in 1..n |-> b]

\* The components of a decomposition of the given shape, before the test's
\* maximumNumberOfComponents is applied.
ShapeSeasonal(shape, window, n) ==
    LET S == cfg.seasonalComponentSize
    IN  CASE shape = "add" ->
                 <<SeasonalComponent(IF window = E_Short THEN DAY ELSE WEEK, 0, S)>>
          [] shape = "replace" ->
                 <<SeasonalComponent(DAY, 0, S), SeasonalComponent(WEEK, 0, 2 * S)>>
          [] shape = "weekdays" ->
                 <<SeasonalComponent(DAY, 1, S), SeasonalComponent(WEEK, 1, S),
                   SeasonalComponent(DAY, 2, S)>>
          [] shape = "fillSmall" ->
                 [i \in 1..(MAXIMUM_COMPONENTS - n) |->
                     SeasonalComponent(i * DAY, 0, (2 * S) \div 3)]
          [] shape = "fillLarge" ->
                 [i \in 1..(MAXIMUM_COMPONENTS - n) |-> SeasonalComponent(i * DAY, 0, S)]
          [] shape = "mismatch" -> <<SeasonalComponent(DAY, 0, S)>>
          [] OTHER -> <<>>

\* makeTestForSeasonality gives the test MAXIMUM_COMPONENTS less the number
\* of modelled components as its maximumNumberOfComponents.
NewSeasonal(shape, window, n) ==
    SubSeq(ShapeSeasonal(shape, window, n), 1,
           Min(Len(ShapeSeasonal(shape, window, n)), Max(0, MAXIMUM_COMPONENTS - n)))

Decomposition(shape, window, n, startTime, endTime) ==
    [mask |-> CASE shape \in {"replace", "weekdays", "remove"} -> AllMask(n, TRUE)
                [] shape = "mismatch" -> AllMask(n + 1, FALSE)
                [] OTHER -> AllMask(n, FALSE),
     seasonal |-> NewSeasonal(shape, window, n),
     start |-> startTime, end |-> endTime]

\* CSeasonalDecomposition::componentsChanged: something to remove or to add.
componentsChanged(components) ==
    \/ components.seasonal # <<>>
    \/ \E i \in 1..Len(components.mask) : components.mask[i]

\* The log has decompose(short) or decompose(long) when the test of the
\* window was made and run.
SeasonalityTest_testWindow(x, m, id, depth, window) ==
    LET shape == IF window = E_Short THEN m.o.seasonalShort ELSE m.o.seasonalLong
        components == Decomposition(shape, window,
                                    Len(x.sc.seasonal.comps),
                                    x.pt.windows[window].start, m.time)
        x1 == [x EXCEPT !.log = Append(@, IF window = E_Short THEN "decompose(short)"
                                                              ELSE "decompose(long)")]
    IN  IF ~SeasonalityTest_shouldTest(x.pt, window, m.time)
        THEN x
        ELSE IF shape \in DecompositionShapes /\ componentsChanged(components)
        THEN Mediator_forward(x1, SDetectedSeasonal(m.time, m.lastTime, components, m.allowed),
                              H_SEASONALITY_TEST, id, depth + 1)
        ELSE x1

SeasonalityTest_test(x, m, id, depth) ==
    CASE x.pt.machine = PT_TEST ->
             SeasonalityTest_testWindow(
                 SeasonalityTest_testWindow(x, m, id, depth, E_Short),
                 m, id, depth, E_Long)
      [] x.pt.machine \in {PT_NOT_TESTING, PT_INITIAL} -> x
      [] OTHER -> [x EXCEPT !.pt = SeasonalityTest_apply(@, PT_RESET, m)]

RECURSIVE SeasonalityTest_handleAddValue(_, _, _, _)

\* The addition of the value without the test of the memory circuit breaker.
SeasonalityTest_addValue_Always(x, m, id, depth) ==
    CASE x.pt.machine = PT_TEST ->
             [x EXCEPT !.pt.windows =
                 [i \in 1..2 |-> IF @[i].present
                                 THEN ExpandingWindow_add(i, @[i], m.time)
                                 ELSE @[i]]]
      [] x.pt.machine = PT_NOT_TESTING -> x
      [] x.pt.machine = PT_INITIAL ->
             SeasonalityTest_handleAddValue(
                 [x EXCEPT !.pt = SeasonalityTest_apply(@, PT_NEW_VALUE, m)],
                 m, id, depth)
      [] OTHER -> [x EXCEPT !.pt = SeasonalityTest_apply(@, PT_RESET, m)]

\* The part of handle(SAddValue) that follows test(message).
SeasonalityTest_addValue(x, m, id, depth) ==
    CASE x.pt.machine = PT_TEST ->
             IF ~m.allowed
             THEN x
             ELSE [x EXCEPT !.pt.windows =
                      [i \in 1..2 |-> IF @[i].present
                                      THEN ExpandingWindow_add(i, @[i], m.time)
                                      ELSE @[i]]]
      [] x.pt.machine = PT_NOT_TESTING -> x
      [] x.pt.machine = PT_INITIAL ->
             SeasonalityTest_handleAddValue(
                 [x EXCEPT !.pt = SeasonalityTest_apply(@, PT_NEW_VALUE, m)],
                 m, id, depth)
      [] OTHER -> [x EXCEPT !.pt = SeasonalityTest_apply(@, PT_RESET, m)]

\* The log has an entry for every entry into handle(SAddValue).
SeasonalityTest_handleAddValue(x, m, id, depth) ==
    SeasonalityTest_addValue(
        SeasonalityTest_test([x EXCEPT !.log = Append(@, "CSeasonalityTest::handle(SAddValue)")],
                             m, id, depth),
        m, id, depth)

SeasonalityTest_handleDetectedTrend(x, m) ==
    [x EXCEPT !.log = Append(@, "callback(trend)")]

----------------------------------------------------------------------------
(* CCalendarTest.                                                          *)

\* m_Test: a null pointer, or a CCalendarCyclicTest: the number of values
\* added and the number of them its error distribution remembers.
NoInnerTest == [present |-> FALSE, n |-> 0, errors |-> 0]
NewInnerTest == [present |-> TRUE, n |-> 0, errors |-> 0]

\* CCalendarTest::CCalendarTest.
CalendarTest_new ==
    [machine |-> IF cfg.bucketLength > DAY THEN CC_NOT_TESTING ELSE CC_INITIAL,
     lastMonth |-> 0,
     test |-> NoInnerTest]

RECURSIVE CalendarTest_apply(_, _, _)

\* apply with m_LastMonth the month of the value on entering CC_TEST.
CalendarTest_apply_ThisMonth(t, symbol, m) ==
    LET old == t.machine
        state == MachineApply(CC_TRANSITION_FUNCTION, symbol, old)
        t1 == [t EXCEPT !.machine = state]
    IN  IF state # old
        THEN CASE state = CC_TEST ->
                      IF ~t1.test.present
                      THEN [t1 EXCEPT !.test = NewInnerTest,
                                      !.lastMonth = month(m.time)]
                      ELSE t1
               [] state \in {CC_NOT_TESTING, CC_INITIAL} ->
                      [t1 EXCEPT !.test = NoInnerTest, !.lastMonth = 0]
               [] OTHER -> CalendarTest_apply(t1, CC_RESET, m)
        ELSE t1

CalendarTest_apply(t, symbol, m) ==
    LET old == t.machine
        state == MachineApply(CC_TRANSITION_FUNCTION, symbol, old)
        t1 == [t EXCEPT !.machine = state]
    IN  IF state # old
        THEN CASE state = CC_TEST ->
                      IF ~t1.test.present
                      THEN [t1 EXCEPT !.test = NewInnerTest,
                                      !.lastMonth = month(m.time) + 2]
                      ELSE t1
               [] state \in {CC_NOT_TESTING, CC_INITIAL} ->
                      [t1 EXCEPT !.test = NoInnerTest, !.lastMonth = 0]
               [] OTHER -> CalendarTest_apply(t1, CC_RESET, m)
        ELSE t1

\* CCalendarTest::shouldTest: whether the month of the time follows
\* m_LastMonth; when it does the month is remembered.
\* A shouldTest that holds in every month but the last one seen.
CalendarTest_shouldTest_AnyOtherMonth(t, time) == month(time) # t.lastMonth % 12

CalendarTest_shouldTest(t, time) == month(time) = (t.lastMonth + 1) % 12

\* The calls of the inner test in the log: m_Test->test() and one entry per
\* component of the result it returned.
CalendarTest_innerTest(x, result) ==
    [x EXCEPT !.log = Append(@, "test()") \o [i \in 1..Len(result) |-> "result"]]

\* One SDetectedCalendar per component of the result of m_Test->test().
RECURSIVE CalendarTest_forwardResult(_, _, _, _, _)
CalendarTest_forwardResult(x, m, result, id, depth) ==
    IF result = <<>> THEN x
    ELSE CalendarTest_forwardResult(
             Mediator_forward(x, SDetectedCalendar(m.time, m.lastTime, Head(result), m.allowed),
                              H_CALENDAR_TEST, id, depth + 1),
             m, Tail(result), id, depth)

CalendarTest_test(x, m, id, depth) ==
    IF CalendarTest_shouldTest(x.cc, m.time)
    THEN LET x1 == [x EXCEPT !.cc.lastMonth = month(m.time)]
         IN  CASE x1.cc.machine = CC_TEST ->
                      CalendarTest_forwardResult(CalendarTest_innerTest(x1, m.o.calendar),
                                                 m, m.o.calendar, id, depth)
               [] x1.cc.machine \in {CC_NOT_TESTING, CC_INITIAL} -> x1
               [] OTHER -> [x1 EXCEPT !.cc = CalendarTest_apply(@, CC_RESET, m)]
    ELSE x

RECURSIVE CalendarTest_handleAddValue(_, _, _, _)

\* The part of handle(SAddValue) that follows test(message).
CalendarTest_addValue(x, m, id, depth) ==
    CASE x.cc.machine = CC_TEST ->
             IF ~m.allowed
             THEN x
             ELSE [x EXCEPT !.cc.test.n = @ + 1, !.cc.test.errors = @ + 1]
      [] x.cc.machine = CC_NOT_TESTING -> x
      [] x.cc.machine = CC_INITIAL ->
             CalendarTest_handleAddValue(
                 [x EXCEPT !.cc = CalendarTest_apply(@, CC_NEW_VALUE, m)],
                 m, id, depth)
      [] OTHER -> [x EXCEPT !.cc = CalendarTest_apply(@, CC_RESET, m)]

CalendarTest_handleAddValue(x, m, id, depth) ==
    CalendarTest_addValue(CalendarTest_test(x, m, id, depth), m, id, depth)

\* handle(SDetectedSeasonal) forwarding a message of its own.
CalendarTest_handleDetectedSeasonal_Forwards(x, m) ==
    Mediator_forward(
        IF x.cc.machine = CC_TEST THEN [x EXCEPT !.cc.test.errors = 0] ELSE x,
        SDetectedTrend(m.allowed), H_CALENDAR_TEST, Len(x.msgs), 3)

\* forgetErrorDistribution empties the error distribution of the inner test.
CalendarTest_handleDetectedSeasonal(x, m) ==
    CASE x.cc.machine = CC_TEST -> [x EXCEPT !.cc.test.errors = 0]
      [] x.cc.machine \in {CC_NOT_TESTING, CC_INITIAL} -> x
      [] OTHER -> [x EXCEPT !.cc = CalendarTest_apply(@, CC_RESET, m)]

----------------------------------------------------------------------------
(* CComponents::handle(const SAddValue&).                                  *)

\* The positions of the components whose window holds the time.
Seasonal_active(store, time) ==
    {i \in 1..Len(store.comps) : InSeasonalWindow(store.comps[i].window, time)}

Calendar_active(store, time) ==
    {i \in 1..Len(store.comps) : InFeatureWindow(store.comps[i].feature, time)}

\* The store after a value was added to the components at the positions in
\* active, and a sample to their errors.  The component at position bad, if
\* active, now holds a non finite value; the errors at position stale, if
\* active, now say to remove theirs.
StoreAddValue(store, active, bad, stale) ==
    [store EXCEPT
        !.comps = [i \in 1..Len(store.comps) |->
                      IF i \in active /\ i = bad
                      THEN [store.comps[i] EXCEPT !.bad = TRUE] ELSE store.comps[i]],
        !.errs = [i \in 1..Len(store.errs) |->
                     IF i \in active
                     THEN (IF i = stale THEN E_REMOVE ELSE E_KEEP) ELSE store.errs[i]]]

\* The part of handle(SAddValue) that follows interpolate.
Components_addValue(x1, m, id, depth) ==
             LET c == x1.sc
                 seasonalComponents == Seasonal_active(c.seasonal, m.time)
                 calendarComponents == Calendar_active(c.calendar, m.time)
                 testForTrend == /\ ~c.usingTrend
                                 /\ TrendObservedInterval(c.trend) > 6 * cfg.bucketLength
                 usingTrend == IF testForTrend THEN m.o.useTrend ELSE c.usingTrend
                 x2 == [x1 EXCEPT
                           !.sc.trend = TrendAdd(@, m.time),
                           !.sc.seasonal = StoreAddValue(@, seasonalComponents,
                                                         m.o.badSeasonal, m.o.staleSeasonal),
                           !.sc.calendar = StoreAddValue(@, calendarComponents,
                                                         m.o.badCalendar, m.o.staleCalendar),
                           !.sc.gain = GainController_add(
                                           @, Cardinality(seasonalComponents) +
                                              Cardinality(calendarComponents)),
                           !.sc.usingTrend = usingTrend]
             IN  IF testForTrend /\ usingTrend
                 THEN [Mediator_forward(x2, SDetectedTrend(m.allowed),
                                        H_COMPONENTS, id, depth + 1)
                          EXCEPT !.log = Append(@, "annotate(trend)")]
                 ELSE x2

Components_handleAddValue(x, m, id, depth) ==
    CASE x.sc.machine \in {SC_NORMAL, SC_NEW_COMPONENTS} ->
             Components_addValue(Components_interpolate(x, m), m, id, depth)
      [] x.sc.machine = SC_DISABLED -> x
      [] OTHER -> Components_apply(x, SC_RESET, m)

\* CComponents::CComponents.
Components_new ==
    [machine |-> SC_NORMAL, usingTrend |-> FALSE, trend |-> NoTrend,
     seasonal |-> NoStore, calendar |-> NoStore,
     gain |-> [origin |-> 0, n |-> 0]]

----------------------------------------------------------------------------
(* The handlers' overrides of CHandler::handle, and the delivery.          *)

\* Whether handler h overrides handle for the type of message.
Overrides(h, type) ==
    CASE h = H_COMPONENTS ->
             type \in {"AddValue", "DetectedSeasonal", "DetectedCalendar",
                       "DetectedChangePoint"}
      [] h = H_CHANGE_POINT_TEST -> type \in {"AddValue", "DetectedSeasonal"}
      [] h = H_SEASONALITY_TEST -> type \in {"AddValue", "DetectedTrend"}
      [] OTHER -> type \in {"AddValue", "DetectedSeasonal"}

Handler_handle(h, x, m, id, depth) ==
    CASE h = H_COMPONENTS /\ m.type = "AddValue" -> Components_handleAddValue(x, m, id, depth)
      [] h = H_COMPONENTS /\ m.type = "DetectedSeasonal" -> Components_handleDetectedSeasonal(x, m)
      [] h = H_COMPONENTS /\ m.type = "DetectedCalendar" -> Components_handleDetectedCalendar(x, m)
      [] h = H_COMPONENTS /\ m.type = "DetectedChangePoint" -> Components_handleDetectedChangePoint(x, m)
      [] h = H_CHANGE_POINT_TEST /\ m.type = "AddValue" -> ChangePointTest_handleAddValue(x, m, id, depth)
      [] h = H_CHANGE_POINT_TEST /\ m.type = "DetectedSeasonal" -> ChangePointTest_handleDetectedSeasonal(x, m)
      [] h = H_SEASONALITY_TEST /\ m.type = "AddValue" -> SeasonalityTest_handleAddValue(x, m, id, depth)
      [] h = H_SEASONALITY_TEST /\ m.type = "DetectedTrend" -> SeasonalityTest_handleDetectedTrend(x, m)
      [] h = H_CALENDAR_TEST /\ m.type = "AddValue" -> CalendarTest_handleAddValue(x, m, id, depth)
      [] h = H_CALENDAR_TEST /\ m.type = "DetectedSeasonal" -> CalendarTest_handleDetectedSeasonal(x, m)
      [] OTHER -> x

\* The object of handler h in the context.
Own(h, x) ==
    CASE h = H_COMPONENTS -> x.sc
      [] h = H_CHANGE_POINT_TEST -> x.cpt
      [] h = H_SEASONALITY_TEST -> x.pt
      [] OTHER -> x.cc

\* The loop of CMediator::forward from the k-th handler on: the call of
\* handle returns before the next handler is entered.
\* The records of one call of handle: x is the context it was entered with,
\* x2 the context it returned.
Mediator_returned(x, x2, h, m, id) ==
    [x2 EXCEPT
        !.trace = Append(@, <<"exit", h, id>>),
        !.audit = IF Overrides(h, m.type)
                  THEN Append(@, [h |-> h, id |-> id,
                                  pre |-> Own(h, x), post |-> Own(h, x2),
                                  log |-> SubSeq(x2.log, Len(x.log) + 1, Len(x2.log)),
                                  moves |-> SubSeq(x2.moves, Len(x.moves) + 1,
                                                   Len(x2.moves))])
                  ELSE @]

\* The loop of forward going through m_Handlers from the back.
Mediator_deliver_Reversed(x, m, id, depth, k) ==
    IF k > Len(Handlers) THEN x
    ELSE Mediator_deliver(
             Mediator_returned(
                 x,
                 Handler_handle(Handlers[Len(Handlers) + 1 - k],
                                [x EXCEPT !.trace = Append(@, <<"enter",
                                                               Handlers[Len(Handlers) + 1 - k],
                                                               id>>)],
                                m, id, depth),
                 Handlers[Len(Handlers) + 1 - k], m, id),
             m, id, depth, k + 1)

Mediator_deliver(x, m, id, depth, k) ==
    IF k > Len(Handlers) THEN x
    ELSE Mediator_deliver(
             Mediator_returned(
                 x,
                 Handler_handle(Handlers[k],
                                [x EXCEPT !.trace = Append(@, <<"enter", Handlers[k], id>>)],
                                m, id, depth),
                 Handlers[k], m, id),
             m, id, depth, k + 1)

----------------------------------------------------------------------------
(* The inputs of an SAddValue.                                             *)

\* The input with which nothing is detected, nothing refused, nothing due.
Quiet ==
    [allowed |-> TRUE, due |-> FALSE, value |-> 1, prediction |-> 0,
     badSeasonal |-> 0, staleSeasonal |-> 0, badCalendar |-> 0, staleCalendar |-> 0,
     useTrend |-> FALSE, largeError |-> FALSE, undo |-> FALSE, change |-> "none",
     seasonalShort |-> "none", seasonalLong |-> "none", calendar |-> <<>>]

\* The shapes the test of each window may be given to return.
WindowShapes ==
    <<{"add", "replace", "weekdays", "remove", "mismatch"},
      {"add", "fillSmall", "fillLarge"}>>

\* The ways one field of the input can differ from Quiet.
Events ==
    {<<"allowed", FALSE>>, <<"due", TRUE>>, <<"useTrend", TRUE>>,
     <<"largeError", TRUE>>, <<"undo", TRUE>>,
     <<"badSeasonal", 1>>, <<"staleSeasonal", 2>>,
     <<"badCalendar", 1>>, <<"staleCalendar", 1>>}
    \cup {<<"change", c>> : c \in {"small", "level", "scale"}}
    \cup {<<"seasonalShort", s>> : s \in WindowShapes[E_Short]}
    \cup {<<"seasonalLong", s>> : s \in WindowShapes[E_Long]}
    \cup {<<"calendar", <<1>> >>, <<"calendar", [i \in 1..NumFeatures |-> i]>>}

WithEvent(o, e) == [o EXCEPT ![e[1]] = e[2]]

\* The inputs that differ from Quiet in at most k fields.
RECURSIVE InputsUpTo(_)
InputsUpTo(k) ==
    IF k = 0 THEN {Quiet}
    ELSE LET fewer == InputsUpTo(k - 1)
         IN  fewer \cup {WithEvent(o, e) : o \in fewer, e \in Events}

\* The inputs of a value added under the hard memory limit when a test
\* proposes components and a modelled component has degraded.
HardLimitInputs ==
    {WithEvent(WithEvent(WithEvent(Quiet, <<"allowed", FALSE>>), proposal), degraded) :
        proposal \in {<<"seasonalShort", "add">>, <<"seasonalShort", "replace">>,
                      <<"seasonalLong", "add">>, <<"calendar", <<1>> >>},
        degraded \in {<<"badSeasonal", 1>>, <<"staleSeasonal", 2>>,
                      <<"badCalendar", 1>>, <<"staleCalendar", 1>>}}

Inputs == InputsUpTo(MaxEvents) \cup HardLimitInputs

\* The times between two values, in bucket lengths.
Gaps == {1, 30, 90}

\* The constructor arguments of the decomposition.
DefaultSeasonalComponentSize == 36
DefaultInverseDecayRate == 84

----------------------------------------------------------------------------
(* The decomposition: construction and addPoint.                           *)

Configuration(bucketLength, mode, maxSteps) ==
    [bucketLength |-> bucketLength,
     seasonalComponentSize |-> DefaultSeasonalComponentSize,
     inverseDecayRate |-> DefaultInverseDecayRate,
     parameters |-> <<windowParameters(E_Short, bucketLength),
                      windowParameters(E_Long, bucketLength)>>,
     rows |-> <<ParametersRow(E_Short, bucketLength), ParametersRow(E_Long, bucketLength)>>,
     mode |-> mode, maxSteps |-> maxSteps]

NoOperation == [name |-> "new", time |-> 0, restores |-> 0]

\* The state after the constructors ran.
Constructed ==
    /\ steps = 0
    /\ lastTime = 0
    /\ firstTime = 0
    /\ cpt = ChangePointTest_new
    /\ pt = SeasonalityTest_new
    /\ cc = CalendarTest_new
    /\ sc = Components_new
    /\ trace = [events |-> <<>>, msgs |-> <<>>]
    /\ audit = <<>>

Init ==
    /\ cfg = Configuration(DAY, "run", MaxSteps)
    /\ Constructed
    /\ op = NoOperation

Context(o) ==
    [sc |-> sc, cpt |-> cpt, pt |-> pt, cc |-> cc, due |-> o.due,
     log |-> <<>>, trace |-> <<>>, msgs |-> <<>>, audit |-> <<>>, moves |-> <<>>]

\* The SAddValue of a value added gap bucket lengths after the last one.
NextMessage(gap, o) ==
    SAddValue(lastTime + gap * cfg.bucketLength, lastTime,
              IF steps = 0 THEN lastTime + gap * cfg.bucketLength ELSE firstTime,
              o.value, 100, o.allowed, o)

\* The state after the SAddValue m was forwarded and the context x returned.
Added(m, x, operation) ==
    /\ steps' = steps + 1
    /\ lastTime' = m.time
    /\ firstTime' = m.firstValueTime
    /\ cpt' = x.cpt
    /\ pt' = x.pt
    /\ cc' = x.cc
    /\ sc' = x.sc
    /\ trace' = [events |-> x.trace, msgs |-> x.msgs]
    /\ audit' = x.audit
    /\ op' = operation
    /\ UNCHANGED cfg

\* One value is added: the SAddValue is forwarded to the handlers, and with
\* it, before the call returns, every message they forward.
AddValueWith(gap, o) ==
    \E x \in {Mediator_forward(Context(o), NextMessage(gap, o), 0, 0, 1)} :
        Added(NextMessage(gap, o), x,
              [name |-> "AddValue", time |-> lastTime + gap * cfg.bucketLength,
               restores |-> op.restores])

AddValue ==
    /\ steps < cfg.maxSteps
    /\ \E gap \in Gaps, o \in Inputs : AddValueWith(gap, o)

Next == AddValue

Spec == Init /\ [][Next]_vars

----------------------------------------------------------------------------
(* Restoring.  acceptRestoreTraverser gives every member the value the      *)
(* persisted document holds for it.  The documents of the model are the     *)
(* object's own, with the state of one of the four machines replaced by     *)
(* any state of that machine.                                               *)

MachineStates(h) == IF h = H_CHANGE_POINT_TEST THEN 0..2 ELSE 0..3

RestoreWith(h, state) ==
    /\ cpt' = IF h = H_CHANGE_POINT_TEST THEN [cpt EXCEPT !.machine = state] ELSE cpt
    /\ pt' = IF h = H_SEASONALITY_TEST THEN [pt EXCEPT !.machine = state] ELSE pt
    /\ cc' = IF h = H_CALENDAR_TEST THEN [cc EXCEPT !.machine = state] ELSE cc
    /\ sc' = IF h = H_COMPONENTS THEN [sc EXCEPT !.machine = state] ELSE sc
    /\ trace' = [events |-> <<>>, msgs |-> <<>>]
    /\ audit' = <<>>
    /\ op' = [op EXCEPT !.name = "Restore", !.time = lastTime, !.restores = @ + 1]
    /\ UNCHANGED <<cfg, steps, lastTime, firstTime>>

Restore ==
    /\ op.restores < MaxRestores
    /\ steps < cfg.maxSteps
    /\ \E h \in 1..4 : \E state \in MachineStates(h) : RestoreWith(h, state)

InitRestore ==
    /\ cfg = Configuration(DAY, "restore", Min(MaxSteps, 2))
    /\ Constructed
    /\ op = NoOperation

NextRestore == AddValue \/ Restore

SpecRestore == InitRestore /\ [][NextRestore]_vars

----------------------------------------------------------------------------
(* The four apply functions on their own.  Each starts from an object as    *)
(* acceptRestoreTraverser can leave it: the machine in any of its states,   *)
(* the buffers empty or holding what was persisted.                         *)

\* The bucket lengths of the jobs.
BucketLengths == {DAY, WEEK}

\* The times of the messages apply is called with.
MessageTimes == {30 * DAY, 45 * DAY}

ChangePointTest_restored(state, held) ==
    [ChangePointTest_new EXCEPT
        !.machine = state,
        !.window = IF held
                   THEN [i \in 1..ChangePointTest_windowSize |->
                            IF i > 28 THEN [count |-> 1, sum |-> 1] ELSE EmptyBucket]
                   ELSE IF state = CD_NOT_TESTING THEN <<>> ELSE @,
        !.lef = IF held THEN [num |-> 1, den |-> 4] ELSE @]

SeasonalityTest_restored(state, held) ==
    [machine |-> state,
     windows |-> IF held
                 THEN [i \in 1..2 |->
                          IF HaveParameters(i)
                          THEN [present |-> TRUE, start |-> 0, index |-> 1, n |-> 7]
                          ELSE NoWindow]
                 ELSE <<NoWindow, NoWindow>>]

CalendarTest_restored(state, held) ==
    [machine |-> state,
     lastMonth |-> IF held THEN 5 ELSE 0,
     test |-> IF held THEN [present |-> TRUE, n |-> 7, errors |-> 7] ELSE NoInnerTest]

Components_restored(state, held) ==
    [Components_new EXCEPT
        !.machine = state,
        !.usingTrend = held,
        !.trend = IF held THEN [has |-> TRUE, first |-> 0, last |-> 20 * DAY] ELSE @,
        !.seasonal = IF held
                     THEN [present |-> TRUE,
                           comps |-> <<[SeasonalComponent(DAY, 0, cfg.seasonalComponentSize)
                                           EXCEPT !.bad = TRUE],
                                       SeasonalComponent(WEEK, 0, cfg.seasonalComponentSize)>>,
                           errs |-> <<E_KEEP, E_REMOVE>>]
                     ELSE @,
        !.calendar = IF held
                     THEN Calendar_add(EmptyStore, 1, m_CalendarComponentSize)
                     ELSE @]

InitMachines ==
    /\ cfg \in {Configuration(b, "apply", MaxSteps) : b \in BucketLengths}
    /\ steps = 0
    /\ lastTime = 0
    /\ firstTime = 0
    /\ trace = [events |-> <<>>, msgs |-> <<>>]
    /\ audit = <<>>
    /\ op = NoOperation
    /\ \E h \in 1..4 : \E state \in MachineStates(h) : \E held \in BOOLEAN :
        /\ cpt = IF h = H_CHANGE_POINT_TEST
                 THEN ChangePointTest_restored(state, held) ELSE ChangePointTest_new
        /\ pt = IF h = H_SEASONALITY_TEST
                THEN SeasonalityTest_restored(state, held) ELSE SeasonalityTest_new
        /\ cc = IF h = H_CALENDAR_TEST
                THEN CalendarTest_restored(state, held) ELSE CalendarTest_new
        /\ sc = IF h = H_COMPONENTS
                THEN Components_restored(state, held) ELSE Components_new

Applied(name, symbol, pre, time, x) ==
    [name |-> name, symbol |-> symbol, pre |-> pre, time |-> time,
     moves |-> x.moves, log |-> x.log, restores |-> 0]

ApplyChangePointTest ==
    /\ steps < cfg.maxSteps
    /\ \E symbol \in {CD_DISABLE, CD_RESET} :
        /\ cpt' = ChangePointTest_apply(cpt, symbol)
        /\ op' = Applied("CChangePointTest::apply", symbol, cpt, 0, Context(Quiet))
    /\ steps' = steps + 1
    /\ UNCHANGED <<cfg, lastTime, firstTime, pt, cc, sc, trace, audit>>

ApplySeasonalityTest ==
    /\ steps < cfg.maxSteps
    /\ \E symbol \in {PT_NEW_VALUE, PT_RESET} : \E time \in MessageTimes :
        /\ pt' = SeasonalityTest_apply(pt, symbol, [time |-> time])
        /\ op' = Applied("CSeasonalityTest::apply", symbol, pt, time, Context(Quiet))
    /\ steps' = steps + 1
    /\ UNCHANGED <<cfg, lastTime, firstTime, cpt, cc, sc, trace, audit>>

ApplyCalendarTest ==
    /\ steps < cfg.maxSteps
    /\ \E symbol \in {CC_NEW_VALUE, CC_RESET} : \E time \in MessageTimes :
        /\ cc' = CalendarTest_apply(cc, symbol, [time |-> time])
        /\ op' = Applied("CCalendarTest::apply", symbol, cc, time, Context(Quiet))
    /\ steps' = steps + 1
    /\ UNCHANGED <<cfg, lastTime, firstTime, cpt, pt, sc, trace, audit>>

ApplyComponents ==
    /\ steps < cfg.maxSteps
    /\ \E symbol \in {SC_ADDED_COMPONENTS, SC_INTERPOLATED, SC_RESET} :
       \E time \in MessageTimes :
       \E x \in {Components_apply(Context(Quiet), symbol, [time |-> time])} :
        /\ sc' = x.sc
        /\ op' = Applied("CComponents::apply", symbol, sc, time, x)
    /\ steps' = steps + 1
    /\ UNCHANGED <<cfg, lastTime, firstTime, cpt, pt, cc, trace, audit>>

NextMachines ==
    \/ ApplyChangePointTest
    \/ ApplySeasonalityTest
    \/ ApplyCalendarTest
    \/ ApplyComponents

SpecMachines == InitMachines /\ [][NextMachines]_vars

----------------------------------------------------------------------------
(* A series of values.  The values come one per bucket, a few of them after *)
(* a longer gap; the errors of the predictions are small or large in        *)
(* stretches; the seasonality test, when it is time for it to test, finds   *)
(* a component or none.  op.history lists, for every value, the count       *)
(* weight less one that countWeight returned for it, the adjustment the      *)
(* change point test was left with, the gap and whether the test was reset. *)

HALF_HOUR == 1800

SeriesBucketLengths == {HALF_HOUR, DAY}

\* The gap, in buckets, before a value, and what the seasonality test finds.
SeriesArrivals ==
    {<<1, "none">>, <<3, "none">>, <<150, "none">>, <<150, "add">>}

SeriesInput(large, found) ==
    [Quiet EXCEPT !.largeError = large,
                  !.prediction = IF large THEN 3 ELSE 0,
                  !.seasonalShort = found]

SeriesOperation(time, large, gap, x) ==
    [name |-> "AddValue", time |-> time, restores |-> 0,
     large |-> large,
     flips |-> op.flips + (IF large # op.large THEN 1 ELSE 0),
     breaks |-> op.breaks + (IF gap # 1 THEN 1 ELSE 0),
     history |-> Append(op.history,
                        [less |-> ChangePointTest_countWeightLessOne(cpt),
                         adjustment |-> x.cpt.adjustment,
                         gap |-> gap,
                         reset |-> \E i \in DOMAIN x.msgs :
                                      x.msgs[i].type = "DetectedSeasonal"])]

InitSeries ==
    /\ cfg \in {Configuration(b, "series", MaxSeriesSteps) : b \in SeriesBucketLengths}
    /\ Constructed
    /\ op = [name |-> "new", time |-> 0, restores |-> 0, large |-> FALSE,
             flips |-> 0, breaks |-> 0, history |-> <<>>]

AddSeriesValue ==
    /\ steps < cfg.maxSteps
    /\ cpt.lef.den <= MaxDenominator
    /\ \E large \in BOOLEAN, arrival \in SeriesArrivals :
           /\ op.flips + (IF large # op.large THEN 1 ELSE 0) <= MaxFlips
           /\ op.breaks + (IF arrival[1] # 1 THEN 1 ELSE 0) <= MaxBreaks
           /\ \E m \in {NextMessage(arrival[1], SeriesInput(large, arrival[2]))} :
              \E x \in {Mediator_forward(Context(m.o), m, 0, 0, 1)} :
                  Added(m, x, SeriesOperation(m.time, large, arrival[1], x))

NextSeries == AddSeriesValue

SpecSeries == InitSeries /\ [][NextSeries]_vars

----------------------------------------------------------------------------
(* The trend.  The values come thirty buckets apart, so that the trend is   *)
(* tested from the third on and the tests for seasonality and for a change  *)
(* have what they need; the state is restored between them.  op.trends      *)
(* counts the SDetectedTrend forwarded since construction.                  *)

TrendInputs ==
    {Quiet} \cup
    {WithEvent(Quiet, e) :
        e \in {<<"useTrend", TRUE>>, <<"change", "level">>, <<"change", "scale">>,
               <<"undo", TRUE>>, <<"seasonalShort", "add">>}} \cup
    {WithEvent(WithEvent(Quiet, <<"useTrend", TRUE>>), <<"seasonalShort", "add">>)}

NumberDetectedTrend(msgs) ==
    Cardinality({i \in DOMAIN msgs : msgs[i].type = "DetectedTrend"})

InitTrend ==
    /\ cfg = Configuration(DAY, "trend", MaxTrendSteps)
    /\ Constructed
    /\ op = [name |-> "new", time |-> 0, restores |-> 0, trends |-> 0]

AddTrendValue ==
    /\ steps < cfg.maxSteps
    /\ \E o \in TrendInputs :
       \E m \in {NextMessage(30, o)} :
       \E x \in {Mediator_forward(Context(o), m, 0, 0, 1)} :
           Added(m, x, [op EXCEPT !.name = "AddValue", !.time = m.time,
                                  !.trends = @ + NumberDetectedTrend(x.msgs)])

NextTrend == AddTrendValue \/ Restore

SpecTrend == InitTrend /\ [][NextTrend]_vars

----------------------------------------------------------------------------
(* Long buckets.  The decomposition is constructed for a bucket length of   *)
(* more than a day or more than a week; values are added to it, and         *)
(* NEW_VALUE and RESET are applied to the machines of its seasonality and   *)
(* calendar tests.                                                          *)

LongBucketLengths == {2 * DAY, 2 * WEEK}

InitLongBuckets ==
    /\ cfg \in {Configuration(b, "long", MaxSteps) : b \in LongBucketLengths}
    /\ Constructed
    /\ op = NoOperation

NextLongBuckets == AddValue \/ ApplySeasonalityTest \/ ApplyCalendarTest

SpecLongBuckets == InitLongBuckets /\ [][NextLongBuckets]_vars

----------------------------------------------------------------------------
(* Propagating forwards.  The callback of stepwisePropagateForwards ages    *)
(* its target by exp(-rate * time): ageing by time1 and then by time2 is    *)
(* ageing by time1 + time2, and the model keeps the sum of the times the    *)
(* callback was called with, 0 when it was not called.  One target is aged  *)
(* from a to b and then from b to c, another from a to c.                   *)

\* stepwisePropagateForwards with end - start for the elapsed time.
stepwisePropagateForwards_Unfloored(start, end, step) ==
    IF end > start THEN (end - start) \div step ELSE 0

\* The time stepwisePropagateForwards calls propagateForwardsByTime with, or
\* 0 when it does not call it.
stepwisePropagateForwards(start, end, step) ==
    IF Floor(end, step) > Floor(start, step)
    THEN (Floor(end, step) - Floor(start, step)) \div step
    ELSE 0

PropagateTimes ==
    {0, 1, DAY - 1, DAY, DAY + HOUR, 2 * DAY, WEEK - 1, WEEK, WEEK + DAY, 2 * WEEK + 1}

\* The steps of the callers: DAY, WEEK, MONTH and the period of a component.
PropagateSteps == {DAY, WEEK, MONTH, 12 * HOUR}

InitPropagate ==
    /\ cfg = Configuration(DAY, "propagate", 0)
    /\ Constructed
    /\ op \in {[name |-> "new", time |-> a, restores |-> 0,
                 a |-> a, b |-> b, c |-> c, step |-> step, split |-> 0, whole |-> 0] :
                    a \in PropagateTimes, b \in PropagateTimes, c \in PropagateTimes,
                    step \in PropagateSteps}

PropagateFirst ==
    /\ op.name = "new"
    /\ op' = [op EXCEPT !.name = "first", !.time = op.b,
                        !.split = @ + stepwisePropagateForwards(op.a, op.b, op.step)]
    /\ UNCHANGED <<cfg, steps, lastTime, firstTime, cpt, pt, cc, sc, trace, audit>>

PropagateSecond ==
    /\ op.name = "first"
    /\ op' = [op EXCEPT !.name = "second", !.time = op.c,
                        !.split = @ + stepwisePropagateForwards(op.b, op.c, op.step)]
    /\ UNCHANGED <<cfg, steps, lastTime, firstTime, cpt, pt, cc, sc, trace, audit>>

PropagateWhole ==
    /\ op.name = "second"
    /\ op' = [op EXCEPT !.name = "whole", !.time = op.c,
                        !.whole = @ + stepwisePropagateForwards(op.a, op.c, op.step)]
    /\ UNCHANGED <<cfg, steps, lastTime, firstTime, cpt, pt, cc, sc, trace, audit>>

NextPropagate == PropagateFirst \/ PropagateSecond \/ PropagateWhole

SpecPropagate == InitPropagate /\ [][NextPropagate]_vars

----------------------------------------------------------------------------
(* What the properties read off the records of the last operation.          *)

\* The records of the calls of handle of handler h for messages of the type.
Handled(h, type) ==
    {i \in DOMAIN audit : audit[i].h = h /\ trace.msgs[audit[i].id].type = type}

\* The message a record of audit is about.
MessageOf(i) == trace.msgs[audit[i].id]

NumberComponents(c) == NumberSeasonal(c) + NumberCalendar(c)

\* The size handle adds to size() before it compares with maxSize().
NominalSize(type) ==
    IF type = "DetectedSeasonal" THEN cfg.seasonalComponentSize ELSE m_CalendarComponentSize

\* The seasonal components the handler of SDetectedSeasonal works on.
SeasonalOrEmpty(c) == IF c.seasonal.present THEN c.seasonal ELSE EmptyStore

HasCallback(log, entry) == \E k \in DOMAIN log : log[k] = entry

----------------------------------------------------------------------------
(* C1.                                                                      *)

\* C1 as stated: in every reachable state the number of seasonal components
\* plus the number of calendar components is at most MAXIMUM_COMPONENTS (8).
C1_CountAtMostEight == NumberComponents(sc) <= MAXIMUM_COMPONENTS

\* C1 amended: the ceiling is on the summed size, not on the number.  The
\* component store gains components only while it handles an SDetectedSeasonal
\* or an SDetectedCalendar that it met with size() plus the nominal size of a
\* component of the kind at most maxSize() = 8 * seasonalComponentSize; and,
\* the test for seasonality keeping to the maximumNumberOfComponents it is
\* given, the seasonal components alone number at most 8.
C1_SizeBudget ==
    /\ NumberSeasonal(sc) <= MAXIMUM_COMPONENTS
    /\ \A i \in DOMAIN audit :
           (audit[i].h = H_COMPONENTS /\
            NumberComponents(audit[i].post) > NumberComponents(audit[i].pre))
           => /\ MessageOf(i).type \in {"DetectedSeasonal", "DetectedCalendar"}
              /\ Components_size(audit[i].pre) + NominalSize(MessageOf(i).type)
                     <= Components_maxSize

\* A calendar component is added, within the size budget, to a store that
\* then holds more than 8 components.
C1_Witness ==
    \E i \in Handled(H_COMPONENTS, "DetectedCalendar") :
        /\ NumberCalendar(audit[i].post) > NumberCalendar(audit[i].pre)
        /\ NumberComponents(audit[i].post) > MAXIMUM_COMPONENTS

----------------------------------------------------------------------------
(* C2.                                                                      *)

\* The calls that C2 is about: allocations are not allowed and the store
\* handles an SDetectedCalendar, or an SDetectedSeasonal whose estimated
\* size change is positive.
C2_Refused ==
    {i \in Handled(H_COMPONENTS, "DetectedCalendar") : ~MessageOf(i).allowed}
    \cup {i \in Handled(H_COMPONENTS, "DetectedSeasonal") :
             /\ ~MessageOf(i).allowed
             /\ Seasonal_estimateSizeChange(SeasonalOrEmpty(audit[i].pre),
                                            MessageOf(i).payload) > 0}

----------------------------------------------------------------------------
(* C3.                                                                      *)

\* C3: with allocations not allowed, SAddValue handled by the seasonality
\* test in PT_TEST leaves both windows as they were, SAddValue handled by the
\* calendar test in CC_TEST leaves the inner test as it was, and neither
\* machine changes state.
C3_NothingAccumulated ==
    /\ \A i \in Handled(H_SEASONALITY_TEST, "AddValue") :
           (~MessageOf(i).allowed /\ audit[i].pre.machine = PT_TEST)
           => /\ audit[i].post.windows = audit[i].pre.windows
              /\ audit[i].post.machine = PT_TEST
    /\ \A i \in Handled(H_CALENDAR_TEST, "AddValue") :
           (~MessageOf(i).allowed /\ audit[i].pre.machine = CC_TEST)
           => /\ audit[i].post.test = audit[i].pre.test
              /\ audit[i].post.machine = CC_TEST

\* Both tests, testing and holding values, were given a value under the
\* hard limit.
C3_Witness ==
    /\ \E i \in Handled(H_SEASONALITY_TEST, "AddValue") :
           /\ ~MessageOf(i).allowed
           /\ audit[i].pre.machine = PT_TEST
           /\ \A w \in 1..2 : audit[i].pre.windows[w].present /\ audit[i].pre.windows[w].n > 0
    /\ \E i \in Handled(H_CALENDAR_TEST, "AddValue") :
           /\ ~MessageOf(i).allowed
           /\ audit[i].pre.machine = CC_TEST
           /\ audit[i].pre.test.n > 0

----------------------------------------------------------------------------
(* C4.                                                                      *)

\* The calls that C4 is about: the store handles an SDetectedSeasonal whose
\* remove mask has another length than there are seasonal components.
C4_Mismatched ==
    {i \in Handled(H_COMPONENTS, "DetectedSeasonal") :
        Len(MessageOf(i).payload.mask) # Len(audit[i].pre.seasonal.comps)}

\* C4 as stated: such a proposal leaves the seasonal set, the calendar set,
\* the trend, the gain controller and the use of the trend unchanged, and the
\* component change callback is not called.
C4_AllUnchanged ==
    \A i \in C4_Mismatched :
        /\ audit[i].post.seasonal.comps = audit[i].pre.seasonal.comps
        /\ audit[i].post.calendar.comps = audit[i].pre.calendar.comps
        /\ audit[i].post.trend = audit[i].pre.trend
        /\ audit[i].post.gain = audit[i].pre.gain
        /\ audit[i].post.usingTrend = audit[i].pre.usingTrend
        /\ ~HasCallback(audit[i].log, "callback()")
        /\ ~HasCallback(audit[i].log, "callback(residuals)")

\* C4 amended: nothing of such a proposal is applied: no component is added
\* or annotated, the trend is not fitted again, the gain controller is not
\* cleared and seeded again, the use of the trend is unchanged and the
\* callback is not called with residuals.  (The handler still applies
\* AddedComponents, and the interpolation that follows may prune components,
\* remove components with bad values and then call the callback with no
\* residuals.)
C4_ProposalDropped ==
    \A i \in C4_Mismatched :
        /\ IsSubSeq(audit[i].post.seasonal.comps, audit[i].pre.seasonal.comps)
        /\ IsSubSeq(audit[i].post.calendar.comps, audit[i].pre.calendar.comps)
        /\ audit[i].post.trend = audit[i].pre.trend
        /\ audit[i].post.gain.n = audit[i].pre.gain.n
        /\ audit[i].post.usingTrend = audit[i].pre.usingTrend
        /\ \A k \in DOMAIN audit[i].log : audit[i].log[k] = "callback()"

\* A mismatched proposal reaches a store that holds seasonal components.
C4_Witness ==
    \E i \in C4_Mismatched :
        /\ audit[i].pre.machine = SC_NORMAL
        /\ Len(audit[i].pre.seasonal.comps) >= 2
        /\ audit[i].post.machine = SC_NORMAL

----------------------------------------------------------------------------
(* C5.                                                                      *)

\* C5: the machine of the component store moves SC_NORMAL to
\* SC_NEW_COMPONENTS on SC_ADDED_COMPONENTS and SC_NEW_COMPONENTS to SC_NORMAL
\* on SC_INTERPOLATED; SC_RESET takes every state to SC_NORMAL, and
\* apply(SC_RESET) leaves the trend cleared and both sets destroyed; in
\* SC_DISABLED no symbol but SC_RESET changes the state.
C5_ComponentsMachine ==
    op.name = "CComponents::apply" =>
        /\ \A k \in DOMAIN op.moves :
               /\ (op.moves[k][1] = SC_NORMAL /\ op.moves[k][2] = SC_ADDED_COMPONENTS)
                      => op.moves[k][3] = SC_NEW_COMPONENTS
               /\ (op.moves[k][1] = SC_NEW_COMPONENTS /\ op.moves[k][2] = SC_INTERPOLATED)
                      => op.moves[k][3] = SC_NORMAL
               /\ op.moves[k][2] = SC_RESET => op.moves[k][3] = SC_NORMAL
               /\ (op.moves[k][1] = SC_DISABLED /\ op.moves[k][2] # SC_RESET)
                      => op.moves[k][3] = SC_DISABLED
        /\ op.moves[1][1] = op.pre.machine /\ op.moves[1][2] = op.symbol
        /\ op.symbol = SC_RESET
               => /\ sc.machine = SC_NORMAL
                  /\ sc.trend = NoTrend
                  /\ sc.seasonal = NoStore /\ sc.calendar = NoStore
        /\ (op.pre.machine = SC_DISABLED /\ op.symbol # SC_RESET) => sc = op.pre

\* SC_RESET was applied to a disabled store that held a trend and components.
C5_Witness ==
    /\ op.name = "CComponents::apply"
    /\ op.symbol = SC_RESET
    /\ op.pre.machine = SC_DISABLED
    /\ op.pre.trend.has /\ op.pre.seasonal.comps # <<>> /\ op.pre.calendar.comps # <<>>
    /\ sc.machine = SC_NORMAL

----------------------------------------------------------------------------
(* C6.                                                                      *)

\* C6 as stated: CD_DISABLE moves the change point test to CD_NOT_TESTING,
\* and CD_RESET applied in any state moves it to CD_TEST with a cleared
\* window.
C6_ResetAlwaysRestarts ==
    op.name = "CChangePointTest::apply" =>
        /\ op.symbol = CD_DISABLE => cpt.machine = CD_NOT_TESTING
        /\ op.symbol = CD_RESET
               => /\ cpt.machine = CD_TEST
                  /\ cpt.window = EmptyWindow(ChangePointTest_windowSize)

\* C6 amended: CD_DISABLE moves CD_TEST to CD_NOT_TESTING, releasing the
\* window, and changes nothing in CD_NOT_TESTING and CD_ERROR; CD_RESET
\* moves CD_ERROR to CD_TEST with a new empty window and changes nothing in
\* CD_TEST (the window keeps its values) and in CD_NOT_TESTING.
C6_ChangePointTestMachine ==
    op.name = "CChangePointTest::apply" =>
        /\ (op.symbol = CD_DISABLE /\ op.pre.machine = CD_TEST)
               => cpt = [op.pre EXCEPT !.machine = CD_NOT_TESTING,
                                       !.window = <<>>, !.lef = ZeroFraction]
        /\ (op.symbol = CD_DISABLE /\ op.pre.machine # CD_TEST) => cpt = op.pre
        /\ (op.symbol = CD_RESET /\ op.pre.machine = CD_ERROR)
               => cpt = [op.pre EXCEPT !.machine = CD_TEST,
                                       !.window = EmptyWindow(ChangePointTest_windowSize),
                                       !.lef = ZeroFraction]
        /\ (op.symbol = CD_RESET /\ op.pre.machine # CD_ERROR) => cpt = op.pre

\* CD_RESET was applied to a test in CD_ERROR whose window held values.
C6_Witness ==
    /\ op.name = "CChangePointTest::apply"
    /\ op.symbol = CD_RESET
    /\ op.pre.machine = CD_ERROR
    /\ op.pre.window # EmptyWindow(ChangePointTest_windowSize)
    /\ cpt.machine = CD_TEST

----------------------------------------------------------------------------
(* C7.                                                                      *)

\* C7 as stated: PT_NEW_VALUE moves PT_INITIAL to PT_TEST, initialising both
\* windows, PT_TEST to PT_TEST, PT_NOT_TESTING to PT_NOT_TESTING and
\* PT_ERROR to PT_INITIAL.
C7_NewValueLeavesError ==
    (op.name = "CSeasonalityTest::apply" /\ op.symbol = PT_NEW_VALUE) =>
        /\ op.pre.machine = PT_INITIAL
               => pt.machine = PT_TEST /\ \A w \in 1..2 : pt.windows[w].present
        /\ op.pre.machine = PT_TEST => pt.machine = PT_TEST
        /\ op.pre.machine = PT_NOT_TESTING => pt.machine = PT_NOT_TESTING
        /\ op.pre.machine = PT_ERROR => pt.machine = PT_INITIAL

\* C7 amended: PT_NEW_VALUE moves PT_INITIAL to PT_TEST and, when the test
\* has no window, creates the window of each kind that has parameters for
\* the job's bucket length, empty and starting at the time of the message
\* floored to the longest bucket length of the window; it changes nothing in
\* PT_TEST, PT_NOT_TESTING and PT_ERROR: only PT_RESET leaves PT_ERROR.
C7_SeasonalityTestMachine ==
    (op.name = "CSeasonalityTest::apply" /\ op.symbol = PT_NEW_VALUE) =>
        /\ op.pre.machine = PT_INITIAL
               => /\ pt.machine = PT_TEST
                  /\ \A w \in 1..2 :
                         pt.windows[w] =
                             IF \E v \in 1..2 : op.pre.windows[v].present
                             THEN op.pre.windows[w]
                             ELSE IF HaveParameters(w)
                             THEN [present |-> TRUE, index |-> 1, n |-> 0,
                                   start |-> Floor(op.time, maxBucketLength(w))]
                             ELSE NoWindow
        /\ op.pre.machine # PT_INITIAL => pt = op.pre

\* PT_NEW_VALUE was applied to a test in PT_INITIAL without windows, for a
\* job whose bucket length has parameters for both windows.
C7_Witness ==
    /\ op.name = "CSeasonalityTest::apply"
    /\ op.symbol = PT_NEW_VALUE
    /\ op.pre.machine = PT_INITIAL
    /\ \A w \in 1..2 : ~op.pre.windows[w].present /\ pt.windows[w].present
    /\ pt.machine = PT_TEST

----------------------------------------------------------------------------
(* C8.                                                                      *)

\* The time of the SAddValue a record of audit is about.
TimeOf(i) == MessageOf(i).payload.time

\* C8 as stated: SAddValue handled in the error state leaves each of the
\* four objects in its initial state, with cleared buffers, the value not
\* accumulated: the change point test in CD_TEST with a new window, the
\* seasonality test in PT_INITIAL, the calendar test in CC_INITIAL without
\* inner test and with month 0, the component store in SC_NORMAL without
\* trend and components.
C8_ErrorResetsToInitial ==
    /\ \A i \in Handled(H_CHANGE_POINT_TEST, "AddValue") :
           audit[i].pre.machine = CD_ERROR
           => /\ audit[i].post.machine = CD_TEST
              /\ audit[i].post.window = EmptyWindow(ChangePointTest_windowSize)
    /\ \A i \in Handled(H_SEASONALITY_TEST, "AddValue") :
           audit[i].pre.machine = PT_ERROR
           => /\ audit[i].post.machine = PT_INITIAL
              /\ \A w \in 1..2 : audit[i].post.windows[w].n = 0
    /\ \A i \in Handled(H_CALENDAR_TEST, "AddValue") :
           audit[i].pre.machine = CC_ERROR
           => /\ audit[i].post.machine = CC_INITIAL
              /\ audit[i].post.test = NoInnerTest
              /\ audit[i].post.lastMonth = 0
    /\ \A i \in Handled(H_COMPONENTS, "AddValue") :
           audit[i].pre.machine = SC_ERROR
           => /\ audit[i].post.machine = SC_NORMAL
              /\ audit[i].post.trend = NoTrend
              /\ audit[i].post.seasonal = NoStore /\ audit[i].post.calendar = NoStore

\* C8 amended: SAddValue handled in the error state leaves the change point
\* test in CD_TEST with a new empty window and the component store in
\* SC_NORMAL without trend and components, the value not accumulated.  The
\* seasonality test is reset to PT_INITIAL and goes on with the same value
\* as with a first value: it ends in PT_TEST with new windows that hold the
\* value when allocations are allowed.  The calendar test ends in CC_INITIAL
\* without inner test and with month 0 unless the month of the value follows
\* its last month: then it ends in CC_TEST with a new inner test that holds
\* the value when allocations are allowed.
C8_ErrorRecovers ==
    /\ \A i \in Handled(H_CHANGE_POINT_TEST, "AddValue") :
           audit[i].pre.machine = CD_ERROR
           => audit[i].post =
                  [audit[i].pre EXCEPT !.machine = CD_TEST,
                                       !.window = EmptyWindow(ChangePointTest_windowSize),
                                       !.lef = ZeroFraction]
    /\ \A i \in Handled(H_SEASONALITY_TEST, "AddValue") :
           audit[i].pre.machine = PT_ERROR
           => /\ audit[i].post.machine = PT_TEST
              /\ \A w \in 1..2 :
                     audit[i].post.windows[w] =
                         IF HaveParameters(w)
                         THEN [present |-> TRUE, index |-> 1,
                               n |-> IF MessageOf(i).allowed THEN 1 ELSE 0,
                               start |-> Floor(TimeOf(i), maxBucketLength(w))]
                         ELSE NoWindow
    /\ \A i \in Handled(H_CALENDAR_TEST, "AddValue") :
           audit[i].pre.machine = CC_ERROR
           => audit[i].post =
                  IF month(TimeOf(i)) = (audit[i].pre.lastMonth + 1) % 12
                  THEN [machine |-> CC_TEST,
                        lastMonth |-> month(TimeOf(i)) + 2,
                        test |-> [present |-> TRUE, errors |-> IF MessageOf(i).allowed THEN 1 ELSE 0,
                                  n |-> IF MessageOf(i).allowed THEN 1 ELSE 0]]
                  ELSE [machine |-> CC_INITIAL, lastMonth |-> 0, test |-> NoInnerTest]
    /\ \A i \in Handled(H_COMPONENTS, "AddValue") :
           audit[i].pre.machine = SC_ERROR
           => /\ audit[i].post.machine = SC_NORMAL
              /\ audit[i].post.trend = NoTrend
              /\ audit[i].post.seasonal = NoStore /\ audit[i].post.calendar = NoStore

\* A value was added, allocations allowed, to a seasonality test restored in
\* PT_ERROR whose windows held values; it ended in PT_TEST.
C8_Witness ==
    \E i \in Handled(H_SEASONALITY_TEST, "AddValue") :
        /\ audit[i].pre.machine = PT_ERROR
        /\ MessageOf(i).allowed
        /\ \A w \in 1..2 : audit[i].pre.windows[w].present /\ audit[i].pre.windows[w].n > 0
        /\ audit[i].post.machine = PT_TEST

----------------------------------------------------------------------------
(* C9.                                                                      *)

\* The entries into and returns from handle for the message id.
DeliveryOf(id) == SelectSeq(trace.events, LAMBDA e : e[3] = id)

\* Every handler entered and left once, in the order of m_Handlers.
InRegistrationOrder(id) ==
    [k \in 1..(2 * Len(Handlers)) |->
        <<IF k % 2 = 1 THEN "enter" ELSE "exit", Handlers[(k + 1) \div 2], id>>]

Position(e) == CHOOSE k \in DOMAIN trace.events : trace.events[k] = e

\* C9: forward(m) calls handle(m) of every registered handler once, in the
\* order of registration, each call returning before the next; a message a
\* handler forwards while it handles m is delivered to all handlers before
\* that handler's handle(m) returns.
C9_DepthFirst ==
    \A id \in DOMAIN trace.msgs :
        /\ DeliveryOf(id) = InRegistrationOrder(id)
        /\ trace.msgs[id].parent # 0
               => /\ Position(<<"enter", trace.msgs[id].by, trace.msgs[id].parent>>) <
                         Position(<<"enter", Handlers[1], id>>)
                  /\ Position(<<"exit", Handlers[Len(Handlers)], id>>) <
                         Position(<<"exit", trace.msgs[id].by, trace.msgs[id].parent>>)

\* One operation in which two handlers forwarded messages.
C9_Witness ==
    \E i, j \in DOMAIN trace.msgs :
        /\ trace.msgs[i].parent = 1 /\ trace.msgs[j].parent = 1
        /\ trace.msgs[i].by = H_SEASONALITY_TEST
        /\ trace.msgs[j].by = H_CALENDAR_TEST

----------------------------------------------------------------------------
(* C10.                                                                     *)

\* The most messages one SAddValue can lead to: itself, an SDetectedTrend,
\* two SDetectedChangePoint (an undo and a change), an SDetectedSeasonal per
\* window and an SDetectedCalendar per feature.
MaxMessages == 6 + NumFeatures

\* C10: adding a value ends: the handlers of SDetectedSeasonal,
\* SDetectedCalendar, SDetectedTrend and SDetectedChangePoint forward
\* nothing, so a message is forwarded either by the caller or by a handler
\* that is handling the SAddValue, forwards nest at most 2 deep, and the
\* number of messages of one SAddValue is bounded.
C10_Bounded ==
    /\ Len(trace.msgs) <= MaxMessages
    /\ \A id \in DOMAIN trace.msgs :
           /\ trace.msgs[id].depth <= 2
           /\ trace.msgs[id].type = "AddValue" <=> trace.msgs[id].parent = 0
           /\ trace.msgs[id].parent # 0
                  => trace.msgs[trace.msgs[id].parent].type = "AddValue"

\* One SAddValue led to four messages, of three types.
C10_Witness ==
    /\ op.name = "AddValue"
    /\ Len(trace.msgs) >= 4
    /\ \E i, j \in DOMAIN trace.msgs :
           trace.msgs[i].type = "DetectedSeasonal" /\ trace.msgs[j].type = "DetectedCalendar"

----------------------------------------------------------------------------
(* C11.                                                                     *)

\* beta, the bucket length over four window bucket lengths, in lowest terms.
C11_Beta ==
    LET g == GCD(cfg.bucketLength, 4 * ChangePointTest_windowBucketLength)
    IN  [num |-> cfg.bucketLength \div g,
         den |-> (4 * ChangePointTest_windowBucketLength) \div g]

\* (1 - beta) * f + beta * indicator.
C11_Ewma(f, indicator) ==
    LET num == (C11_Beta.den - C11_Beta.num) * f.num + indicator * C11_Beta.num * f.den
    IN  IF num = 0 THEN ZeroFraction ELSE [num |-> num, den |-> C11_Beta.den * f.den]

C11_InUnitInterval ==
    /\ cpt.lef.den > 0
    /\ 0 <= cpt.lef.num
    /\ cpt.lef.num <= cpt.lef.den

C11_OnlyEwmaOrZero ==
    \A i \in DOMAIN audit :
        audit[i].h = H_CHANGE_POINT_TEST =>
            audit[i].post.lef \in {audit[i].pre.lef, ZeroFraction,
                                   C11_Ewma(audit[i].pre.lef, 0),
                                   C11_Ewma(audit[i].pre.lef, 1)}

\* C11: in every reachable state of the change point test the large error
\* fraction lies in [0, 1]; a call of handle leaves it as it was, sets it to
\* 0, or replaces it by (1 - beta) * fraction + beta * indicator with
\* indicator 0 or 1 and beta = bucket length / (4 * window bucket length),
\* which is at most 1/4.
C11_LargeErrorFraction ==
    /\ C11_InUnitInterval
    /\ C11_OnlyEwmaOrZero
    /\ 4 * C11_Beta.num <= C11_Beta.den

\* A value with a large error was added to a test of half hour buckets whose
\* fraction was already positive, and the fraction moved, with beta = 1/8,
\* to a value strictly between 0 and 1.
C11_Witness ==
    /\ cfg.bucketLength = HALF_HOUR
    /\ 8 * C11_Beta.num = C11_Beta.den
    /\ \E i \in Handled(H_CHANGE_POINT_TEST, "AddValue") :
           /\ audit[i].pre.lef.num > 0
           /\ audit[i].post.lef # audit[i].pre.lef
           /\ audit[i].post.lef = C11_Ewma(audit[i].pre.lef, 1)
           /\ audit[i].post.lef.num < audit[i].post.lef.den

----------------------------------------------------------------------------
(* C12.                                                                     *)

\* C12: in every reachable state of the change point test the total count
\* weight adjustment is at most 0, whatever values were added, after gaps
\* of many buckets or not, and whatever resets DetectedSeasonal caused; and
\* every call of handle of the test found it and left it at most 0.
C12_AdjustmentNeverPositive ==
    /\ cpt.adjustment <= 0
    /\ \A i \in DOMAIN audit :
           audit[i].h = H_CHANGE_POINT_TEST =>
               audit[i].pre.adjustment <= 0 /\ audit[i].post.adjustment <= 0

\* A value came many buckets after the last one while the count weight was
\* the small one, which left the adjustment negative, and the reset of the
\* DetectedSeasonal of the same value set it to 0.
C12_Witness ==
    /\ op.history # <<>>
    /\ op.history[Len(op.history)].gap > 1
    /\ \E i \in Handled(H_CHANGE_POINT_TEST, "AddValue") :
           audit[i].post.adjustment < audit[i].pre.adjustment
    /\ \E i \in Handled(H_CHANGE_POINT_TEST, "DetectedSeasonal") :
           audit[i].pre.adjustment < 0 /\ audit[i].post.adjustment = 0

\* A value came three buckets after the last one while the adjustment was
\* less than a bucket's weight below 0: the sum is positive and the
\* adjustment is left at 0.
C12_WitnessClamped ==
    /\ op.history # <<>>
    /\ \E i \in Handled(H_CHANGE_POINT_TEST, "AddValue") :
           /\ audit[i].pre.adjustment < 0
           /\ audit[i].pre.adjustment +
                  op.history[Len(op.history)].gap *
                      ChangePointTest_countWeightLessOne(audit[i].pre) > 0
           /\ audit[i].post.adjustment = 0

----------------------------------------------------------------------------
(* C13.                                                                     *)

\* The sum of countWeight less one over the values from to to of a history.
RECURSIVE SumLess(_, _, _)
SumLess(history, from, to) ==
    IF from > to THEN 0 ELSE history[to].less + SumLess(history, from, to - 1)

\* The values came one per bucket and the test was not reset.
C13_OnePerBucket ==
    /\ op.breaks = 0
    /\ \A k \in DOMAIN op.history : op.history[k].gap = 1 /\ ~op.history[k].reset

\* The number of values, one per bucket, in an interval of the length
\* maximumIntervalToDetectChange.
C13_IntervalValues ==
    ChangePointTest_maximumIntervalToDetectChange(100) \div cfg.bucketLength

\* C13 as stated: for values arriving one per bucket, over any interval of
\* the length maximumIntervalToDetectChange the sum of countWeight less one
\* is 0.
C13_EveryIntervalAveragesOne ==
    C13_OnePerBucket =>
        \A k \in DOMAIN op.history :
            k + C13_IntervalValues - 1 <= Len(op.history) =>
                SumLess(op.history, k, k + C13_IntervalValues - 1) = 0

\* C13: for values arriving one per bucket, with no reset between them, the
\* total count weight adjustment is the sum of countWeight less one over the
\* values so far, so that the sum over the values between any two at which
\* the adjustment is 0 is 0: the count weight averages to 1 from one time
\* the adjustment is 0 to the next.
C13_AveragesOneBetweenZeros ==
    C13_OnePerBucket =>
        /\ \A k \in DOMAIN op.history :
               op.history[k].adjustment = SumLess(op.history, 1, k)
        /\ \A j, k \in DOMAIN op.history :
               (j < k /\ op.history[j].adjustment = 0 /\ op.history[k].adjustment = 0)
                   => SumLess(op.history, j + 1, k) = 0

\* Values came one per bucket; the count weight was the small one for some
\* of them and larger than one for later ones, and the adjustment, negative
\* in between, is 0 again.
C13_Witness ==
    /\ C13_OnePerBucket
    /\ \E i, j, k \in DOMAIN op.history :
           /\ i < j /\ j < k
           /\ op.history[i].adjustment = 0
           /\ op.history[j].less < 0
           /\ op.history[j].adjustment < 0
           /\ op.history[k].less > 0
           /\ op.history[k].adjustment = 0

----------------------------------------------------------------------------
(* C14.                                                                     *)

\* The records of the calls of handle(SAddValue) of a change point test in
\* CD_TEST.
C14_Added == {i \in Handled(H_CHANGE_POINT_TEST, "AddValue") : audit[i].pre.machine = CD_TEST}

\* What the call added to the last bucket of the window: the bucket is a
\* new one when it holds one quantity.
C14_AddedToWindow(i) ==
    LET n == Len(audit[i].post.window)
    IN  audit[i].post.window[n].sum -
            (IF audit[i].post.window[n].count = 1 THEN 0 ELSE audit[i].pre.window[n].sum)

\* C14 as stated: every quantity added to a bucket of the window by an
\* SAddValue handled in CD_TEST is the value less the prediction.
C14_WindowHoldsResiduals ==
    \A i \in C14_Added :
        C14_AddedToWindow(i) = MessageOf(i).payload.value - MessageOf(i).payload.prediction

\* C14: every quantity added to a bucket of the window by an SAddValue
\* handled in CD_TEST is the value of the observation; the value less the
\* prediction is what is added to the residual moments.
C14_WindowHoldsValues ==
    \A i \in C14_Added :
        /\ C14_AddedToWindow(i) = MessageOf(i).payload.value
        /\ audit[i].post.residual =
               BucketAdd(audit[i].pre.residual,
                         MessageOf(i).payload.value - MessageOf(i).payload.prediction)

\* A value whose prediction is not 0 was added to a bucket of the window
\* that held a value already.
C14_Witness ==
    \E i \in C14_Added :
        /\ MessageOf(i).payload.prediction # 0
        /\ audit[i].post.window[Len(audit[i].post.window)].count = 2
        /\ audit[i].pre.residual.count > 0

----------------------------------------------------------------------------
(* C19.                                                                     *)

\* The records of the calls of handle(SAddValue) of a change point test in
\* CD_TEST that holds an undoable change.
C19_Pending ==
    {i \in Handled(H_CHANGE_POINT_TEST, "AddValue") :
        audit[i].pre.machine = CD_TEST /\ audit[i].pre.undoable}

\* The change is older than maximumIntervalToDetectChange at the value.
C19_Old(i) ==
    TimeOf(i) - audit[i].pre.lastChangePointTime >
        ChangePointTest_maximumIntervalToDetectChange(100)

\* The test forwarded the undoing of its last change while handling the
\* message of record i.
C19_Undone(i) ==
    \E k \in DOMAIN trace.msgs :
        /\ trace.msgs[k].type = "DetectedChangePoint"
        /\ trace.msgs[k].parent = audit[i].id
        /\ trace.msgs[k].payload.kind = "undo"

\* C19 as stated: after the first SAddValue handled in CD_TEST with the
\* undoable change older than maximumIntervalToDetectChange, no undoable
\* change is pending.
C19_NonePending ==
    \A i \in C19_Pending : C19_Old(i) => ~audit[i].post.undoable

\* C19: an undoable change created at time c is pending until the first
\* SAddValue handled in CD_TEST that undoes it or comes later than
\* maximumIntervalToDetectChange after c, and no longer: an undoable change
\* pending after that SAddValue was created by it.  A change is undone only
\* while it is pending.
C19_BoundedLifetime ==
    /\ \A i \in C19_Pending :
           IF C19_Old(i) \/ C19_Undone(i)
           THEN audit[i].post.undoable => audit[i].post.lastChangePointTime = TimeOf(i)
           ELSE /\ audit[i].post.undoable
                /\ audit[i].post.lastChangePointTime = audit[i].pre.lastChangePointTime
    /\ \A i \in Handled(H_CHANGE_POINT_TEST, "AddValue") :
           C19_Undone(i) => i \in C19_Pending

\* A value came later than maximumIntervalToDetectChange after an undoable
\* change, which was not undone, and the test holds no undoable change.
C19_Witness ==
    \E i \in C19_Pending :
        C19_Old(i) /\ ~C19_Undone(i) /\ ~audit[i].post.undoable

\* A value came within maximumIntervalToDetectChange of an undoable change,
\* which is still pending.
C19_WitnessPending ==
    \E i \in C19_Pending :
        ~C19_Old(i) /\ ~C19_Undone(i) /\ audit[i].post.undoable

----------------------------------------------------------------------------
(* C20.                                                                     *)

\* Every SDetectedTrend of the last operation was forwarded by the component
\* store while it handled an SAddValue which it began with
\* m_UsingTrendForPrediction false and ended with it true.
C20_OnlyOnFirstTrue ==
    \A k \in DOMAIN trace.msgs :
        trace.msgs[k].type = "DetectedTrend" =>
            /\ trace.msgs[k].by = H_COMPONENTS
            /\ \E i \in Handled(H_COMPONENTS, "AddValue") :
                   /\ audit[i].id = trace.msgs[k].parent
                   /\ ~audit[i].pre.usingTrend
                   /\ audit[i].post.usingTrend

\* C20: over any sequence of operations on one decomposition SDetectedTrend
\* is forwarded at most once, only by an SAddValue during which
\* m_UsingTrendForPrediction goes from false to true, and the flag, once
\* true, is true after every operation: after the handling of
\* SDetectedSeasonal and SDetectedChangePoint and after a reset as well.
C20_TrendDetectedOnce ==
    /\ [](op.trends <= 1 /\ C20_OnlyOnFirstTrue)
    /\ [][sc.usingTrend => sc'.usingTrend]_vars

\* The trend was detected by an earlier value, and the value just added
\* found the component store in its error state and reset it: the trend is
\* cleared and the flag is still true.
C20_Witness ==
    /\ op.trends = 1
    /\ \A k \in DOMAIN trace.msgs : trace.msgs[k].type # "DetectedTrend"
    /\ \E i \in Handled(H_COMPONENTS, "AddValue") :
           /\ audit[i].pre.machine = SC_ERROR
           /\ audit[i].pre.usingTrend
           /\ audit[i].post.trend = NoTrend
           /\ audit[i].post.usingTrend

----------------------------------------------------------------------------
(* C16.                                                                     *)

\* C16: for any step and times a <= b <= c, ageing from a to b and then from
\* b to c ages by as many steps as ageing from a to c; and a call whose end
\* is before its start, or whose start and end are in the same step, ages
\* nothing.
C16_Additive ==
    /\ (op.name = "whole" /\ op.a <= op.b /\ op.b <= op.c) => op.split = op.whole
    /\ (op.name = "whole" /\
           (op.c < op.a \/ \E k \in 0..(op.a \div op.step) :
                              /\ k * op.step <= op.a /\ op.a < (k + 1) * op.step
                              /\ k * op.step <= op.c /\ op.c < (k + 1) * op.step))
          => op.whole = 0
    /\ (op.name = "first" /\ op.b < op.a) => op.split = 0

\* A target was aged from a to b and from b to c, each time by at least a
\* step, with b not at the start of a step, and another from a to c.
C16_Witness ==
    /\ op.name = "whole"
    /\ op.a < op.b /\ op.b < op.c
    /\ op.b % op.step # 0
    /\ stepwisePropagateForwards(op.a, op.b, op.step) > 0
    /\ stepwisePropagateForwards(op.b, op.c, op.step) > 0
    /\ op.split = op.whole

\* The start and the end of a call were different times of the same step,
\* and nothing was aged.
C16_WitnessSameStep ==
    /\ op.name = "whole"
    /\ op.a < op.c
    /\ op.whole = 0

----------------------------------------------------------------------------
(* C18.                                                                     *)

C18_NoMessage(type) == \A k \in DOMAIN trace.msgs : trace.msgs[k].type # type

\* C18: a seasonality test constructed for a bucket length of more than
\* 604800 s and a calendar test constructed for a bucket length of more
\* than a day are in NOT_TESTING from construction on, whatever values are
\* added and whether NEW_VALUE or RESET is applied; they hold no window and
\* no inner test, and no SDetectedSeasonal and no SDetectedCalendar is
\* forwarded.
C18_DisabledForGood ==
    /\ cfg.bucketLength > 604800 =>
           /\ pt.machine = PT_NOT_TESTING
           /\ pt.windows = <<NoWindow, NoWindow>>
           /\ C18_NoMessage("DetectedSeasonal")
           /\ \A i \in DOMAIN audit :
                  audit[i].h = H_SEASONALITY_TEST => audit[i].post = pt
    /\ cfg.bucketLength > DAY =>
           /\ cc.machine = CC_NOT_TESTING
           /\ ~cc.test.present
           /\ C18_NoMessage("DetectedCalendar")
           /\ \A i \in DOMAIN audit :
                  audit[i].h = H_CALENDAR_TEST => audit[i].post.machine = CC_NOT_TESTING

\* Values were added to a decomposition with buckets of two weeks, the last
\* one long enough after the first for a test to be due, and RESET was then
\* applied to the seasonality test.
C18_Witness ==
    /\ cfg.bucketLength > 604800
    /\ op.name = "CSeasonalityTest::apply"
    /\ op.symbol = PT_RESET
    /\ steps = cfg.maxSteps
    /\ lastTime - firstTime >= 30 * cfg.bucketLength
    /\ pt.machine = PT_NOT_TESTING

\* A value was added to a decomposition with buckets of two days after
\* NEW_VALUE was applied to its calendar test, and the seasonality test,
\* which is testing, forwarded SDetectedSeasonal.
C18_WitnessCalendar ==
    /\ cfg.bucketLength = 2 * DAY
    /\ op.name = "AddValue"
    /\ pt.machine = PT_TEST
    /\ ~C18_NoMessage("DetectedSeasonal")
    /\ cc.machine = CC_NOT_TESTING

----------------------------------------------------------------------------
(* Persistence.  A document is the sequence of the entries an inserter was  *)
(* given, in order: insertValue gives a tag with a string, insertLevel a    *)
(* tag with the document of the level.  Strings are sequences of            *)
(* characters.  The members the model does not keep (the mean offset, the   *)
(* outlier weight derate, the mean variance scale, the prediction error     *)
(* moments) have no entry.                                                  *)

Value(tag, string) == [tag |-> tag, value |-> string, level |-> <<>>]
Level(tag, document) == [tag |-> tag, value |-> <<>>, level |-> document]

Digit == <<"0", "1", "2", "3", "4", "5", "6", "7", "8", "9">>

RECURSIVE NaturalToString(_)
NaturalToString(n) ==
    IF n < 10 THEN <<Digit[n + 1]>>
    ELSE NaturalToString(n \div 10) \o <<Digit[(n % 10) + 1]>>

\* core::CStringUtils::typeToString of an integer: its decimal digits.
typeToString(n) == IF n < 0 THEN <<"-">> \o NaturalToString(-n) ELSE NaturalToString(n)

RECURSIVE StringToNatural(_)
StringToNatural(s) ==
    IF s = <<>> THEN 0
    ELSE StringToNatural(SubSeq(s, 1, Len(s) - 1)) * 10 +
             (CHOOSE d \in 0..9 : Digit[d + 1] = s[Len(s)])

\* core::CStringUtils::stringToType to an integer.
stringToType(s) ==
    IF s # <<>> /\ Head(s) = "-" THEN -StringToNatural(Tail(s)) ELSE StringToNatural(s)

\* The two parts of a string around the first delimiter in it.
Split(s, delimiter) ==
    LET n == CHOOSE i \in 1..Len(s) : s[i] = delimiter /\ \A j \in 1..(i - 1) : s[j] # delimiter
    IN  <<SubSeq(s, 1, n - 1), SubSeq(s, n + 1, Len(s))>>

\* insertValue of a double and RESTORE_BUILT_IN of it: a double of the model
\* is a fraction, or a whole number of units.
typeToStringPrecise(f) == typeToString(f.num) \o <<"/">> \o typeToString(f.den)

stringToDouble(s) ==
    [num |-> stringToType(Split(s, "/")[1]), den |-> stringToType(Split(s, "/")[2])]

\* common::CBasicStatistics::SSampleCentralMoments::toDelimited and
\* fromDelimited, for an accumulator of a count and a sum.
toDelimited(bucket) == typeToString(bucket.count) \o <<":">> \o typeToString(bucket.sum)

fromDelimited(s) ==
    [count |-> stringToType(Split(s, ":")[1]), sum |-> stringToType(Split(s, ":")[2])]

\* core::CPersistUtils::persist and restore of a collection of accumulators.
PersistUtils_persist(tag, collection) ==
    Level(tag, [i \in 1..Len(collection) |-> Value("a", toDelimited(collection[i]))])

PersistUtils_restore(document) ==
    [i \in 1..Len(document) |-> fromDelimited(document[i].value)]

\* core::CStateMachine::acceptPersistInserter and acceptRestoreTraverser.
Machine_acceptPersistInserter(state) == <<Value("a", typeToString(state))>>

Machine_acceptRestoreTraverser(document) == stringToType(document[1].value)

\* The document without the pending change.
ChangePointTest_acceptPersistInserter_NoLastChange(t) ==
    <<Level("CHANGE_DETECTOR_TEST_MACHINE_7_11_TAG", Machine_acceptPersistInserter(t.machine)),
      PersistUtils_persist("SLIDING_WINDOW_7_11_TAG", t.window),
      Value("RESIDUAL_MOMENTS_7_11_TAG", toDelimited(t.residual)),
      Value("LARGE_ERROR_FRACTION_7_11_TAG", typeToStringPrecise(t.lef)),
      Value("TOTAL_COUNT_WEIGHT_ADJUSTMENT_7_11_TAG", typeToString(t.adjustment)),
      Value("MINIMUM_TOTAL_COUNT_WEIGHT_ADJUSTMENT_7_11_TAG", typeToString(t.minimum)),
      Value("LAST_TEST_TIME_7_11_TAG", typeToString(t.lastTestTime)),
      Value("LAST_CHANGE_POINT_TIME_7_11_TAG", typeToString(t.lastChangePointTime)),
      Value("LAST_CANDIDATE_CHANGE_POINT_TIME_7_11_TAG",
            typeToString(t.lastCandidateChangePointTime))>>

\* CChangePointTest::acceptPersistInserter: the level of the last change
\* point is inserted when m_UndoableLastChange is not null.
ChangePointTest_acceptPersistInserter(t) ==
    ChangePointTest_acceptPersistInserter_NoLastChange(t) \o
        (IF t.undoable THEN <<Level("LAST_CHANGE_POINT_7_11_TAG", <<>>)>> ELSE <<>>)

\* One turn of the loop of CChangePointTest::acceptRestoreTraverser.
ChangePointTest_restoreEntry(t, e) ==
    CASE e.tag = "CHANGE_DETECTOR_TEST_MACHINE_7_11_TAG" ->
             [t EXCEPT !.machine = Machine_acceptRestoreTraverser(e.level)]
      [] e.tag = "SLIDING_WINDOW_7_11_TAG" ->
             [t EXCEPT !.window = PersistUtils_restore(e.level)]
      [] e.tag = "RESIDUAL_MOMENTS_7_11_TAG" ->
             [t EXCEPT !.residual = fromDelimited(e.value)]
      [] e.tag = "LARGE_ERROR_FRACTION_7_11_TAG" ->
             [t EXCEPT !.lef = stringToDouble(e.value)]
      [] e.tag = "TOTAL_COUNT_WEIGHT_ADJUSTMENT_7_11_TAG" ->
             [t EXCEPT !.adjustment = stringToType(e.value)]
      [] e.tag = "MINIMUM_TOTAL_COUNT_WEIGHT_ADJUSTMENT_7_11_TAG" ->
             [t EXCEPT !.minimum = stringToType(e.value)]
      [] e.tag = "LAST_TEST_TIME_7_11_TAG" ->
             [t EXCEPT !.lastTestTime = stringToType(e.value)]
      [] e.tag = "LAST_CHANGE_POINT_TIME_7_11_TAG" ->
             [t EXCEPT !.lastChangePointTime = stringToType(e.value)]
      [] e.tag = "LAST_CANDIDATE_CHANGE_POINT_TIME_7_11_TAG" ->
             [t EXCEPT !.lastCandidateChangePointTime = stringToType(e.value)]
      [] e.tag = "LAST_CHANGE_POINT_7_11_TAG" -> [t EXCEPT !.undoable = TRUE]
      [] OTHER -> t

\* CChangePointTest::acceptRestoreTraverser, on the entries of a document.
RECURSIVE ChangePointTest_acceptRestoreTraverser(_, _)
ChangePointTest_acceptRestoreTraverser(t, document) ==
    IF document = <<>> THEN t
    ELSE ChangePointTest_acceptRestoreTraverser(
             ChangePointTest_restoreEntry(t, Head(document)), Tail(document))

\* CChangePointTest::checksum: the members in the order they are hashed.
ChangePointTest_checksum(t) ==
    <<t.machine, cfg.inverseDecayRate, cfg.bucketLength, t.window, t.residual, t.lef,
      t.adjustment, t.minimum, t.lastTestTime, t.lastChangePointTime,
      t.lastCandidateChangePointTime, t.undoable>>

\* CComponentErrors::toDelimited and fromDelimited: the errors of the model
\* are what they make of the component.
ErrorsCode == <<E_CLEAR, E_KEEP, E_REMOVE>>

Errors_toDelimited(errors) == typeToString(CHOOSE i \in 1..3 : ErrorsCode[i] = errors)

Errors_fromDelimited(s) == ErrorsCode[stringToType(s)]

\* The level of a seasonal or a calendar component.
Component_acceptPersistInserter(component) ==
    <<Value("a", typeToString(IF "period" \in DOMAIN component
                              THEN component.period ELSE component.feature)),
      Value("b", typeToString(IF "window" \in DOMAIN component THEN component.window ELSE 0)),
      Value("c", typeToString(component.size)),
      Value("d", typeToString(IF component.bad THEN 1 ELSE 0))>>

SeasonalComponent_restore(document) ==
    [period |-> stringToType(document[1].value),
     window |-> stringToType(document[2].value),
     size |-> stringToType(document[3].value),
     bad |-> stringToType(document[4].value) # 0]

CalendarComponent_restore(document) ==
    [feature |-> stringToType(document[1].value),
     size |-> stringToType(document[3].value),
     bad |-> stringToType(document[4].value) # 0]

\* CSeasonal::acceptPersistInserter and CCalendar::acceptPersistInserter.
Store_acceptPersistInserter(store) ==
    <<Value("VERSION_6_4_TAG", <<>>)>> \o
    [i \in 1..Len(store.comps) |->
        Level("COMPONENT_6_4_TAG", Component_acceptPersistInserter(store.comps[i]))] \o
    <<Level("ERRORS_6_4_TAG",
            [i \in 1..Len(store.errs) |-> Value("a", Errors_toDelimited(store.errs[i]))])>>

\* CSeasonal::acceptRestoreTraverser and CCalendar::acceptRestoreTraverser
\* into a store just made: the loop runs when the first entry is the version.
RECURSIVE Store_restoreEntries(_, _, _)
Store_restoreEntries(store, document, seasonal) ==
    IF document = <<>> THEN store
    ELSE LET e == Head(document)
         IN  Store_restoreEntries(
                 CASE e.tag = "COMPONENT_6_4_TAG" ->
                          [store EXCEPT !.comps =
                              Append(@, IF seasonal THEN SeasonalComponent_restore(e.level)
                                        ELSE CalendarComponent_restore(e.level))]
                   [] e.tag = "ERRORS_6_4_TAG" ->
                          [store EXCEPT !.errs =
                              [i \in 1..Len(e.level) |-> Errors_fromDelimited(e.level[i].value)]]
                   [] OTHER -> store,
                 Tail(document), seasonal)

Store_acceptRestoreTraverser(document, seasonal) ==
    IF document # <<>> /\ Head(document).tag = "VERSION_6_4_TAG"
    THEN Store_restoreEntries(EmptyStore, Tail(document), seasonal)
    ELSE EmptyStore

\* CGainController::acceptPersistInserter and acceptRestoreTraverser.
GainController_acceptPersistInserter(gain) ==
    <<Value("REGRESSION_ORIGIN_6_4_TAG", typeToString(gain.origin)),
      Value("MEAN_SUM_AMPLITUDES_6_4_TAG", typeToString(gain.n))>>

RECURSIVE GainController_acceptRestoreTraverser(_, _)
GainController_acceptRestoreTraverser(gain, document) ==
    IF document = <<>> THEN gain
    ELSE LET e == Head(document)
         IN  GainController_acceptRestoreTraverser(
                 CASE e.tag = "REGRESSION_ORIGIN_6_4_TAG" ->
                          [gain EXCEPT !.origin = stringToType(e.value)]
                   [] e.tag = "MEAN_SUM_AMPLITUDES_6_4_TAG" ->
                          [gain EXCEPT !.n = stringToType(e.value)]
                   [] OTHER -> gain,
                 Tail(document))

\* CTrendComponent::acceptPersistInserter and acceptRestoreTraverser.
Trend_acceptPersistInserter(trend) ==
    <<Value("a", typeToString(IF trend.has THEN 1 ELSE 0)),
      Value("b", typeToString(trend.first)),
      Value("c", typeToString(trend.last))>>

Trend_acceptRestoreTraverser(document) ==
    [has |-> stringToType(document[1].value) # 0,
     first |-> stringToType(document[2].value),
     last |-> stringToType(document[3].value)]

\* A CComponents with its decay rate: m_DecayRate is a member the
\* constructor sets from the configuration and the restore reads.
ComponentsOf(c) == [sc |-> c, decayRate |-> [num |-> 1, den |-> cfg.inverseDecayRate]]

\* The document without the flag of the use of the trend.
Components_acceptPersistInserter_NoFlag(c) ==
    <<Value("VERSION_6_3_TAG", <<>>),
      Level("COMPONENTS_MACHINE_6_3_TAG", Machine_acceptPersistInserter(c.sc.machine)),
      Value("DECAY_RATE_6_3_TAG", typeToStringPrecise(c.decayRate)),
      Level("GAIN_CONTROLLER_6_3_TAG", GainController_acceptPersistInserter(c.sc.gain)),
      Level("TREND_6_3_TAG", Trend_acceptPersistInserter(c.sc.trend))>> \o
    (IF c.sc.seasonal.present
     THEN <<Level("SEASONAL_6_3_TAG", Store_acceptPersistInserter(c.sc.seasonal))>>
     ELSE <<>>) \o
    (IF c.sc.calendar.present
     THEN <<Level("CALENDAR_6_3_TAG", Store_acceptPersistInserter(c.sc.calendar))>>
     ELSE <<>>)

\* CComponents::acceptPersistInserter.
Components_acceptPersistInserter(c) ==
    Components_acceptPersistInserter_NoFlag(c) \o
        <<Value("USING_TREND_FOR_PREDICTION_6_3_TAG",
                typeToString(IF c.sc.usingTrend THEN 1 ELSE 0))>>

\* One turn of the loop of CComponents::acceptRestoreTraverser.
Components_restoreEntry(c, e) ==
    CASE e.tag = "COMPONENTS_MACHINE_6_3_TAG" ->
             [c EXCEPT !.sc.machine = Machine_acceptRestoreTraverser(e.level)]
      [] e.tag = "DECAY_RATE_6_3_TAG" -> [c EXCEPT !.decayRate = stringToDouble(e.value)]
      [] e.tag = "GAIN_CONTROLLER_6_3_TAG" ->
             [c EXCEPT !.sc.gain = GainController_acceptRestoreTraverser(@, e.level)]
      [] e.tag = "TREND_6_3_TAG" ->
             [c EXCEPT !.sc.trend = Trend_acceptRestoreTraverser(e.level)]
      [] e.tag = "SEASONAL_6_3_TAG" ->
             [c EXCEPT !.sc.seasonal = Store_acceptRestoreTraverser(e.level, TRUE)]
      [] e.tag = "CALENDAR_6_3_TAG" ->
             [c EXCEPT !.sc.calendar = Store_acceptRestoreTraverser(e.level, FALSE)]
      [] e.tag = "USING_TREND_FOR_PREDICTION_6_3_TAG" ->
             [c EXCEPT !.sc.usingTrend = stringToType(e.value) # 0]
      [] OTHER -> c

RECURSIVE Components_restoreEntries(_, _)
Components_restoreEntries(c, document) ==
    IF document = <<>> THEN c
    ELSE Components_restoreEntries(Components_restoreEntry(c, Head(document)), Tail(document))

\* CComponents::acceptRestoreTraverser: the loop runs when the first entry
\* is the version; the decay rate read is then given to the trend and the
\* components, which keep none in the model.
Components_acceptRestoreTraverser(c, document) ==
    IF document # <<>> /\ Head(document).tag = "VERSION_6_3_TAG"
    THEN Components_restoreEntries(c, Tail(document))
    ELSE c

\* CComponents::checksum: the members in the order they are hashed.
Components_checksum(c) ==
    <<c.sc.machine, c.decayRate, cfg.bucketLength, cfg.seasonalComponentSize,
      m_CalendarComponentSize, c.sc.trend, c.sc.seasonal, c.sc.calendar, c.sc.gain,
      c.sc.usingTrend>>

\* A decomposition whose change point test and components are persisted and
\* restored into new ones between the values.
InitPersist ==
    /\ cfg = Configuration(DAY, "persist", Min(MaxSteps, 2))
    /\ Constructed
    /\ op = NoOperation

PersistRestore ==
    /\ op.restores < MaxRestores
    /\ \E t \in {ChangePointTest_acceptRestoreTraverser(
                     ChangePointTest_new, ChangePointTest_acceptPersistInserter(cpt))} :
       \E c \in {Components_acceptRestoreTraverser(
                     ComponentsOf(Components_new),
                     Components_acceptPersistInserter(ComponentsOf(sc)))} :
        /\ cpt' = t
        /\ sc' = c.sc
        /\ op' = [name |-> "PersistRestore", time |-> lastTime,
                  restores |-> op.restores + 1,
                  original |-> <<ChangePointTest_checksum(cpt),
                                 Components_checksum(ComponentsOf(sc))>>,
                  restored |-> <<ChangePointTest_checksum(t), Components_checksum(c)>>]
    /\ trace' = [events |-> <<>>, msgs |-> <<>>]
    /\ audit' = <<>>
    /\ UNCHANGED <<cfg, steps, lastTime, firstTime, pt, cc>>

NextPersist == AddValue \/ PersistRestore

SpecPersist == InitPersist /\ [][NextPersist]_vars

----------------------------------------------------------------------------
(* C17: persisting the change point test and the components and restoring  *)
(* them into newly constructed ones with the same configuration gives      *)
(* objects with the checksums of the originals: every member the checksum  *)
(* hashes, the state of the machine, the accumulators, the times and the   *)
(* pending undoable change among them, is the same.                        *)

C17_Restored == op.name = "PersistRestore"

C17_WitnessComponents ==
    /\ C17_Restored
    /\ sc.seasonal.present
    /\ Len(sc.seasonal.comps) > 0

----------------------------------------------------------------------------
(* The canonical form.  The mean values and the slopes of the seasonal      *)
(* components are fractions; the store of this part keeps them with each    *)
(* component, beside what the store of the other parts keeps.              *)

Abs(n) == IF n < 0 THEN -n ELSE n

Fraction(n, d) ==
    LET g == GCD(Abs(n), d) IN [num |-> n \div g, den |-> d \div g]

FractionAdd(a, b) == Fraction(a.num * b.den + b.num * a.den, a.den * b.den)
FractionSub(a, b) == Fraction(a.num * b.den - b.num * a.den, a.den * b.den)
FractionOver(a, n) == Fraction(a.num, a.den * n)
FractionLess(a, b) == a.num * b.den < b.num * a.den

\* The sum of f over the positions of a set.
RECURSIVE FractionSum(_, _)
FractionSum(f, positions) ==
    IF positions = {} THEN ZeroFraction
    ELSE LET i == CHOOSE k \in positions : TRUE
         IN  FractionAdd(f[i], FractionSum(f, positions \ {i}))

\* common::CBasicStatistics::CMinMax::signMargin of the values added: the
\* minimum when it is above 0, the maximum when it is below 0, else 0.
SignMargin(values) ==
    IF values = {} THEN ZeroFraction
    ELSE LET min == CHOOSE v \in values : \A u \in values : ~FractionLess(u, v)
             max == CHOOSE v \in values : \A u \in values : ~FractionLess(v, u)
         IN  IF FractionLess(ZeroFraction, min) THEN min
             ELSE IF FractionLess(max, ZeroFraction) THEN max
             ELSE ZeroFraction

\* A seasonal component with its mean value, its slope and whether
\* slopeAccurate holds of it.
LevelledComponent(window, level, slope, accurate) ==
    [period |-> IF window = 0 THEN DAY ELSE WEEK, window |-> window,
     size |-> cfg.seasonalComponentSize, bad |-> FALSE,
     level |-> level, slope |-> slope, accurate |-> accurate]

\* The positions of the components of a window, and of those among them
\* whose slope is accurate.
InWindow(comps, w) == {i \in 1..Len(comps) : comps[i].window = w}
AccurateInWindow(comps, w) == {i \in InWindow(comps, w) : comps[i].accurate}

\* levels[window] and slopes[window] of canonicalize.
LevelSum(comps, w) == FractionSum([i \in 1..Len(comps) |-> comps[i].level], InWindow(comps, w))
SlopeSum(comps, w) ==
    FractionSum([i \in 1..Len(comps) |-> comps[i].slope], AccurateInWindow(comps, w))

\* The values commonLevel and commonSlope are given: one per window that
\* has a component, and one per window that has one with an accurate slope.
LevelSums(comps) == {LevelSum(comps, w) : w \in {comps[i].window : i \in 1..Len(comps)}}
SlopeSums(comps) ==
    {SlopeSum(comps, w) : w \in {comps[i].window : i \in {k \in 1..Len(comps) : comps[k].accurate}}}

\* CSeasonal::prune with the shifts of the levels: the mean value of a
\* component removed goes to the first component left of its window, for a
\* component with no window to the first one left with no window and, when
\* there is none, to every component left.
Levelled_prune(store) ==
    IF Len(store.comps) > 1
    THEN LET mask == Seasonal_pruneMask(store, WindowedCount(store.comps), 1)
             gone(w) == {i \in InWindow(store.comps, w) : mask[i]}
             shift(w) == FractionSum([i \in 1..Len(store.comps) |-> store.comps[i].level],
                                     gone(w))
             left == StoreRemoveIf(store, mask)
             first(w) == IF InWindow(left.comps, w) = {} THEN 0
                         ELSE CHOOSE i \in InWindow(left.comps, w) :
                                  \A j \in InWindow(left.comps, w) : i <= j
             shifted(i) ==
                 LET w == left.comps[i].window
                     own == IF gone(w) # {} /\ first(w) = i THEN shift(w) ELSE ZeroFraction
                     fallback == IF gone(0) # {} /\ first(0) = 0 THEN shift(0) ELSE ZeroFraction
                 IN  FractionAdd(left.comps[i].level, FractionAdd(own, fallback))
         IN  [left EXCEPT !.comps = [i \in 1..Len(left.comps) |->
                                        [left.comps[i] EXCEPT !.level = shifted(i)]]]
    ELSE store

\* A canonicalize that prunes and moves nothing to the trend.
Levelled_canonicalize_PruneOnly(c) ==
    IF ~c.seasonal.present THEN c
    ELSE LET pruned == Levelled_prune(c.seasonal)
         IN  [c EXCEPT !.seasonal = IF pruned.comps = <<>> THEN NoStore ELSE pruned]

\* CComponents::canonicalize of the seasonal components and the trend: the
\* pruning, then the common level and the common slope of the windows are
\* moved from the components to the trend.
Levelled_canonicalize(c) ==
    IF ~c.seasonal.present THEN c
    ELSE LET pruned == Levelled_prune(c.seasonal)
         IN  IF pruned.comps = <<>> THEN [c EXCEPT !.seasonal = NoStore]
             ELSE LET comps == pruned.comps
                      level == SignMargin(LevelSums(comps))
                      slope == SignMargin(SlopeSums(comps))
                      moved(i) ==
                          LET w == comps[i].window
                          IN  [comps[i] EXCEPT
                                  !.level =
                                      IF level # ZeroFraction
                                      THEN FractionOver(FractionSub(LevelSum(comps, w), level),
                                                        Cardinality(InWindow(comps, w)))
                                      ELSE @,
                                  !.slope =
                                      IF slope # ZeroFraction /\ comps[i].accurate
                                      THEN FractionOver(FractionSub(SlopeSum(comps, w), slope),
                                                        Cardinality(AccurateInWindow(comps, w)))
                                      ELSE @]
                  IN  [c EXCEPT !.seasonal = [pruned EXCEPT !.comps =
                                                 [i \in 1..Len(comps) |-> moved(i)]],
                                !.trend.level = FractionAdd(@, level),
                                !.trend.slope = FractionAdd(@, slope)]

\* The components a seasonality test finds.

NewLevelled ==
    {LevelledComponent(w, Fraction(l, 1), Fraction(sl[1], 1), sl[2]) :
        w \in 0..2, l \in {-1, 2}, sl \in {<<1, TRUE>>, <<-1, TRUE>>, <<1, FALSE>>}}

InitLevelled ==
    /\ cfg = Configuration(DAY, "levels", MaxLevelledSteps)
    /\ steps = 0
    /\ lastTime = 0
    /\ firstTime = 0
    /\ cpt = ChangePointTest_new
    /\ pt = SeasonalityTest_new
    /\ cc = CalendarTest_new
    /\ sc = [Components_new EXCEPT
                !.trend = [has |-> FALSE, first |-> 0, last |-> 0,
                           level |-> ZeroFraction, slope |-> ZeroFraction]]
    /\ trace = [events |-> <<>>, msgs |-> <<>>]
    /\ audit = <<>>
    /\ op = [name |-> "new", time |-> 0, restores |-> 0, canonical |-> <<>>,
             pruned |-> <<>>, level |-> ZeroFraction]

\* CComponents::handle(SAddValue) on the levels: canonicalize, op.pruned and
\* op.level being the seasonal components after prune and the level of the
\* trend before it, op.canonical the components after it; when the
\* components are due, those with bad values are removed; then the value is
\* added, after which a component may hold a bad value or have errors that
\* say it is to be removed.
LevelledAddValue ==
    /\ steps < cfg.maxSteps
    /\ \E due \in BOOLEAN :
       \E bad, stale \in 0..Len(sc.seasonal.comps) :
       \E c \in {Levelled_canonicalize(sc)} :
       \E kept \in {IF c.seasonal.present /\ due
                    THEN Seasonal_removeComponentsWithBadValues(c.seasonal)
                    ELSE c.seasonal} :
        /\ sc' = [c EXCEPT
                    !.seasonal =
                        [kept EXCEPT
                            !.comps = [i \in 1..Len(kept.comps) |->
                                          [kept.comps[i] EXCEPT !.bad = @ \/ i = bad]],
                            !.errs = [i \in 1..Len(kept.errs) |->
                                         IF i = stale THEN E_REMOVE ELSE E_KEEP]]]
        /\ op' = [name |-> "AddValue", time |-> lastTime + cfg.bucketLength, restores |-> 0,
                  canonical |-> c.seasonal.comps,
                  pruned |-> IF sc.seasonal.present
                             THEN Levelled_prune(sc.seasonal).comps ELSE <<>>,
                  level |-> sc.trend.level]
    /\ steps' = steps + 1
    /\ lastTime' = lastTime + cfg.bucketLength
    /\ UNCHANGED <<cfg, firstTime, cpt, pt, cc, trace, audit>>

\* CComponents::handle(SDetectedSeasonal) on the levels: the components of
\* the mask are removed, the new ones added and sorted, the errors cleared
\* and the trend fitted again.
LevelledDetectedSeasonal ==
    /\ steps < cfg.maxSteps
    /\ \E mask \in [1..Len(sc.seasonal.comps) -> BOOLEAN] :
       \E new \in {<<>>} \cup {<<n>> : n \in NewLevelled} :
        /\ Len(RemoveIf(mask, sc.seasonal.comps)) + Len(new) <= MaxLevelled
        /\ sc' = [sc EXCEPT
                    !.seasonal =
                        ClearErrors(Seasonal_refreshForNewComponents(
                            Seasonal_addAll(
                                Seasonal_remove(IF @.present THEN @ ELSE EmptyStore, mask),
                                new))),
                    !.trend.level = ZeroFraction,
                    !.trend.slope = ZeroFraction]
        /\ op' = [name |-> "DetectedSeasonal", time |-> lastTime, restores |-> 0,
                  canonical |-> <<>>, pruned |-> <<>>, level |-> ZeroFraction]
    /\ steps' = steps + 1
    /\ UNCHANGED <<cfg, lastTime, firstTime, cpt, pt, cc, trace, audit>>

NextLevelled == LevelledAddValue \/ LevelledDetectedSeasonal

SpecLevelled == InitLevelled /\ [][NextLevelled]_vars

----------------------------------------------------------------------------
(* C15: the min-max bracket of the sums per window of the mean levels of   *)
(* the seasonal components contains 0, and so does the bracket of the sums *)
(* per window of the slopes.                                               *)

\* Whether the bracket of a set of values contains 0.
C15_ContainsZero(values) ==
    \/ values = {}
    \/ /\ \E v \in values : ~FractionLess(ZeroFraction, v)
       /\ \E v \in values : ~FractionLess(v, ZeroFraction)

C15_Canonical(comps) ==
    /\ C15_ContainsZero(LevelSums(comps))
    /\ C15_ContainsZero(SlopeSums(comps))

C15_CanonicalAfterAddValue == op.name = "AddValue" => C15_Canonical(sc.seasonal.comps)

----------------------------------------------------------------------------
(* C21: the calendar test calls the inner test for an SAddValue exactly    *)
(* when it is in CC_TEST and the month of the value follows m_LastMonth;   *)
(* m_LastMonth is then the month of the value, one SDetectedCalendar is    *)
(* forwarded per component of the result and none for any other value, and *)
(* the next value of the same civil month is not tested.                   *)

\* How many entries of a log are the given one.
C21_Count(log, entry) == Cardinality({k \in DOMAIN log : log[k] = entry})

\* The SDetectedCalendar the calendar test forwarded for message id.
C21_Forwarded(id) ==
    {j \in DOMAIN trace.msgs :
        /\ trace.msgs[j].type = "DetectedCalendar"
        /\ trace.msgs[j].by = H_CALENDAR_TEST
        /\ trace.msgs[j].parent = id}

C21_Tested(i) == HasCallback(audit[i].log, "test()")

C21_TestedNow == \E i \in Handled(H_CALENDAR_TEST, "AddValue") : C21_Tested(i)

C21_OnRollover ==
    \A i \in Handled(H_CALENDAR_TEST, "AddValue") :
        /\ C21_Tested(i) <=>
               /\ audit[i].pre.machine = CC_TEST
               /\ month(MessageOf(i).payload.time) = (audit[i].pre.lastMonth + 1) % 12
        /\ C21_Tested(i) => audit[i].post.lastMonth = month(MessageOf(i).payload.time)
        /\ C21_Count(audit[i].log, "test()") <= 1
        /\ Cardinality(C21_Forwarded(audit[i].id)) = C21_Count(audit[i].log, "result")

C21_AllForwardedOnRollover ==
    \A j \in DOMAIN trace.msgs :
        trace.msgs[j].type = "DetectedCalendar"
            => \E i \in Handled(H_CALENDAR_TEST, "AddValue") :
                   C21_Tested(i) /\ j \in C21_Forwarded(audit[i].id)

\* A value of the civil month of the value just tested is not tested.
C21_OncePerMonth ==
    (C21_TestedNow /\ lastTime' \div (30 * DAY) = lastTime \div (30 * DAY)) => ~C21_TestedNow'

C21_TestOnRollover ==
    /\ [](C21_OnRollover /\ C21_AllForwardedOnRollover)
    /\ [][C21_OncePerMonth]_vars

\* The inner test ran and two SDetectedCalendar were forwarded.
C21_Witness ==
    \E i \in Handled(H_CALENDAR_TEST, "AddValue") :
        /\ C21_Tested(i)
        /\ Cardinality(C21_Forwarded(audit[i].id)) = 2

\* A value of the month of the value tested before it was added.
C21_WitnessSameMonth ==
    /\ op.name = "AddValue"
    /\ steps = 3
    /\ cc.machine = CC_TEST
    /\ cc.lastMonth = month(lastTime)
    /\ ~C21_TestedNow

----------------------------------------------------------------------------
(* C22: whatever the state of its machine, disabled included, the          *)
(* component store has m_UsingTrendForPrediction true after it handled an  *)
(* SDetectedChangePoint, and it called the component change callback with  *)
(* the residuals of the change, once, exactly when the flag was false      *)
(* before.                                                                 *)

C22_Callbacks(i) ==
    Cardinality({k \in DOMAIN audit[i].log : audit[i].log[k] = "callback(change)"})

C22_TrendUsedAfterChange ==
    \A i \in Handled(H_COMPONENTS, "DetectedChangePoint") :
        /\ audit[i].post.usingTrend
        /\ C22_Callbacks(i) = (IF audit[i].pre.usingTrend THEN 0 ELSE 1)
        /\ audit[i].post.machine = audit[i].pre.machine

\* A disabled component store with the flag false handled a change.
C22_Witness ==
    \E i \in Handled(H_COMPONENTS, "DetectedChangePoint") :
        /\ audit[i].pre.machine = SC_DISABLED
        /\ ~audit[i].pre.usingTrend
        /\ C22_Callbacks(i) = 1

\* A component store with the flag true handled a change.
C22_WitnessNoCallback ==
    \E i \in Handled(H_COMPONENTS, "DetectedChangePoint") :
        /\ audit[i].pre.usingTrend
        /\ C22_Callbacks(i) = 0

----------------------------------------------------------------------------
(* C23: countWeight is CHANGE_COUNT_WEIGHT exactly when                    *)
(* m_LargeErrorFraction > 0.25 and m_TotalCountWeightAdjustment is above   *)
(* m_MinimumTotalCountWeightAdjustment, and in [1, 2] otherwise; and from  *)
(* the value with which the adjustment falls below the minimum until the   *)
(* adjustment is zero again countWeight is not CHANGE_COUNT_WEIGHT.        *)

C23_IsChangeCountWeight(t) ==
    ChangePointTest_countWeightLessOne(t) =
        (CHANGE_COUNT_WEIGHT_TENTHS - 10) * cfg.bucketLength

C23_CountWeight ==
    /\ C23_IsChangeCountWeight(cpt) <=>
           (4 * cpt.lef.num > cpt.lef.den /\ cpt.adjustment > cpt.minimum)
    /\ ~C23_IsChangeCountWeight(cpt) =>
           /\ 0 <= ChangePointTest_countWeightLessOne(cpt)
           /\ ChangePointTest_countWeightLessOne(cpt) <= 10 * cfg.bucketLength

\* The budget is spent: the adjustment fell below the minimum and has not
\* been zero since.
C23_Exhausted(t) == t.adjustment < 0 /\ t.minimum = 0

\* The value added left the adjustment below the minimum it was compared to.
C23_FellBelow == cpt'.adjustment # 0 /\ cpt'.adjustment < cpt.minimum

C23_ExhaustedUntilZero ==
    /\ C23_FellBelow => C23_Exhausted(cpt')
    /\ (C23_Exhausted(cpt) /\ cpt'.adjustment # 0) => C23_Exhausted(cpt')

C23_CountWeightBudget ==
    /\ [](C23_CountWeight /\ (C23_Exhausted(cpt) => ~C23_IsChangeCountWeight(cpt)))
    /\ [][C23_ExhaustedUntilZero]_vars

\* The budget is spent with a large error fraction above a quarter, and the
\* values before it were added with CHANGE_COUNT_WEIGHT.
C23_Witness ==
    /\ C23_Exhausted(cpt)
    /\ 4 * cpt.lef.num > cpt.lef.den
    /\ Len(op.history) >= 2
    /\ op.history[Len(op.history)].less < 0
    /\ op.history[Len(op.history)].gap = 1

\* The adjustment is zero again after the budget was spent, and countWeight
\* is CHANGE_COUNT_WEIGHT again.
C23_WitnessAgain ==
    /\ C23_IsChangeCountWeight(cpt)
    /\ \E i \in DOMAIN op.history :
           /\ op.history[i].less < 0
           /\ \E j \in (i + 1)..Len(op.history) :
                  /\ op.history[j].less > 0
                  /\ op.history[j].adjustment < 0

----------------------------------------------------------------------------
(* C25: while the values added to a newly constructed test have times      *)
(* before the time of the first one plus three days, the large error       *)
(* fraction is zero, no time of a value is kept as the time of a candidate *)
(* change, and countWeight is not CHANGE_COUNT_WEIGHT.                     *)

C25_StartingUp == steps >= 1 /\ lastTime < firstTime + 3 * DAY

C25_NoCandidateAtStartUp ==
    C25_StartingUp =>
        /\ cpt.lef = ZeroFraction
        /\ cpt.lastCandidateChangePointTime = TIME_MIN_HALF
        /\ ~C23_IsChangeCountWeight(cpt)

\* Three values with large errors were added in the first three days.
C25_Witness ==
    /\ C25_StartingUp
    /\ steps >= 3
    /\ op.large
    /\ op.flips = 1
    /\ cpt.machine = CD_TEST

\* The first value with a large error after the three days.
C25_WitnessAfter ==
    /\ steps >= 3
    /\ lastTime >= firstTime + 3 * DAY
    /\ op.large
    /\ op.flips = 1
    /\ cpt.lef.num > 0
    /\ \E i \in DOMAIN op.history : op.history[i].gap = 1 /\ i = Len(op.history)

----------------------------------------------------------------------------
(* The window of the change point test.  Values are added one, a few or    *)
(* more than windowSize() window buckets after the last one, to a           *)
(* decomposition with buckets of half an hour, a day or a week, and the    *)
(* change point test becomes its copy for forecasting at any point.        *)
(* op.elapsed is the number of window buckets between the last two values. *)

WindowBucketLengths == {HALF_HOUR, DAY, WEEK}

\* The gaps, in buckets, before a value.
WindowGaps == {1, 31, 33, 200}

WindowInputs ==
    {Quiet, WithEvent(Quiet, <<"seasonalShort", "add">>), WithEvent(Quiet, <<"allowed", FALSE>>)}

InitWindow ==
    /\ cfg \in {Configuration(b, "window", MaxWindowSteps) : b \in WindowBucketLengths}
    /\ Constructed
    /\ op = [name |-> "new", time |-> 0, restores |-> 0, elapsed |-> 0]

AddWindowValue ==
    /\ steps < cfg.maxSteps
    /\ \E gap \in WindowGaps, o \in WindowInputs :
       \E m \in {NextMessage(gap, o)} :
       \E x \in {Mediator_forward(Context(o), m, 0, 0, 1)} :
           Added(m, x, [name |-> "AddValue", time |-> m.time, restores |-> 0,
                        elapsed |-> (ChangePointTest_startOfWindowBucket(m.time) -
                                     ChangePointTest_startOfWindowBucket(m.lastTime)) \div
                                        ChangePointTest_windowBucketLength])

\* CChangePointTest(other, isForForecast): every member but
\* m_UndoableLastChange is initialised from other, and that one is null when
\* the body tests it; the copy for a forecast is disabled.
ChangePointTest_copy(other, isForForecast) ==
    LET copied == [other EXCEPT !.undoable = FALSE]
    IN  IF isForForecast THEN ChangePointTest_apply(copied, CD_DISABLE)
        ELSE IF copied.undoable THEN [copied EXCEPT !.undoable = other.undoable]
        ELSE copied

\* CCalendarTest(other, isForForecast): the inner test is copied unless the
\* copy is for a forecast.
CalendarTest_copy(other, isForForecast) ==
    [other EXCEPT !.test = IF ~isForForecast /\ other.test.present
                           THEN other.test ELSE NoInnerTest]

CopyForForecast ==
    /\ steps < cfg.maxSteps
    /\ cpt.machine = CD_TEST
    /\ cpt' = ChangePointTest_copy(cpt, TRUE)
    /\ op' = [name |-> "CopyForForecast", time |-> lastTime, restores |-> 0, elapsed |-> 0]
    /\ UNCHANGED <<cfg, steps, lastTime, firstTime, pt, cc, sc, trace, audit>>

NextWindow == AddWindowValue \/ CopyForForecast

SpecWindow == InitWindow /\ [][NextWindow]_vars

----------------------------------------------------------------------------
(* C24: the window of the change point test has max(32, 4 * DAY /          *)
(* windowBucketLength()) buckets in CD_TEST, however many window buckets   *)
(* go by between two values, and none in CD_NOT_TESTING; the last bucket,  *)
(* which handle(SAddValue) adds the value to, exists whenever it is read.  *)

C24_Size ==
    LET length == IF cfg.bucketLength > HOUR THEN cfg.bucketLength ELSE HOUR
    IN  IF (4 * DAY) \div length > 32 THEN (4 * DAY) \div length ELSE 32

\* The change point test added the value to its window.
C24_AddedByTest ==
    /\ op.name = "AddValue"
    /\ \E i \in Handled(H_CHANGE_POINT_TEST, "AddValue") : audit[i].pre.machine = CD_TEST

C24_ConstantLength ==
    /\ cpt.machine \in {CD_TEST, CD_NOT_TESTING}
    /\ cpt.machine = CD_TEST => Len(cpt.window) = C24_Size
    /\ cpt.machine = CD_NOT_TESTING => cpt.window = <<>>
    /\ \A i \in Handled(H_CHANGE_POINT_TEST, "AddValue") :
           audit[i].pre.machine = CD_TEST =>
               /\ Len(audit[i].pre.window) = C24_Size
               /\ Len(audit[i].post.window) = C24_Size
               /\ audit[i].post.window[C24_Size].count >= 1
               /\ op.elapsed >= 1 => audit[i].post.window[C24_Size].count = 1

\* More window buckets than the window has went by before the value: it is
\* alone in the window.
C24_Witness ==
    /\ C24_AddedByTest
    /\ steps >= 2
    /\ op.elapsed > C24_Size
    /\ cpt.window[Len(cpt.window)].count = 1
    /\ \A i \in 1..(Len(cpt.window) - 1) : cpt.window[i].count = 0

\* Fewer went by: the value before it is in the window as well.
C24_WitnessKept ==
    /\ C24_AddedByTest
    /\ steps >= 2
    /\ op.elapsed > 1
    /\ op.elapsed < C24_Size
    /\ \E i \in 1..(Len(cpt.window) - 1) : cpt.window[i].count = 1

\* A value was added to the copy for forecasting.
C24_WitnessNotTesting ==
    /\ op.name = "AddValue"
    /\ cpt.machine = CD_NOT_TESTING
    /\ \E i \in Handled(H_CHANGE_POINT_TEST, "AddValue") : audit[i].pre.machine = CD_NOT_TESTING

----------------------------------------------------------------------------
(* Changes.  The buckets are half an hour, so that a tenth of               *)
(* minimumChangeLength is six buckets; the values come one, seven or        *)
(* seventy buckets apart; the test for a change finds none, one that is too *)
(* small or too short, a level shift or a scale, and the undoable change    *)
(* says that it should be undone or not.  op.applied and op.undone count    *)
(* the undoable changes and the undos forwarded since construction.         *)

ChangeGaps == {1, 7, 70}

ChangeInputs ==
    {Quiet, WithEvent(Quiet, <<"undo", TRUE>>),
     WithEvent(WithEvent(Quiet, <<"undo", TRUE>>), <<"change", "level">>)}
    \cup {WithEvent(Quiet, <<"change", c>>) : c \in {"small", "level", "scale"}}

NumberDetectedChange(msgs, kind) ==
    Cardinality({i \in DOMAIN msgs :
                    msgs[i].type = "DetectedChangePoint" /\ msgs[i].payload.kind = kind})

InitChange ==
    /\ cfg = Configuration(HALF_HOUR, "change", MaxChangeSteps)
    /\ Constructed
    /\ op = [name |-> "new", time |-> 0, restores |-> 0, applied |-> 0, undone |-> 0]

AddChangeValue ==
    /\ steps < cfg.maxSteps
    /\ \E gap \in ChangeGaps, o \in ChangeInputs :
       \E m \in {NextMessage(gap, o)} :
       \E x \in {Mediator_forward(Context(o), m, 0, 0, 1)} :
           Added(m, x, [op EXCEPT !.name = "AddValue", !.time = m.time,
                                  !.applied = @ + NumberDetectedChange(x.msgs, "level"),
                                  !.undone = @ + NumberDetectedChange(x.msgs, "undo")])

NextChange == AddChangeValue

SpecChange == InitChange /\ [][NextChange]_vars

\* The SDetectedChangePoint of the given kinds the change point test
\* forwarded while it handled the message of record i.
ChangesForwarded(i, kinds) ==
    {k \in DOMAIN trace.msgs :
        /\ trace.msgs[k].type = "DetectedChangePoint"
        /\ trace.msgs[k].by = H_CHANGE_POINT_TEST
        /\ trace.msgs[k].parent = audit[i].id
        /\ trace.msgs[k].payload.kind \in kinds}

----------------------------------------------------------------------------
(* C26: when testForChange is called with an undoable change pending, the  *)
(* test for a change is not run, m_LastTestTime is left as it was, no      *)
(* change is forwarded and the pending change stays the one it was.        *)

C26_PendingAtTest(i) == HasCallback(audit[i].log, "testForChange: undoable")

C26_NoTestWhilePending ==
    \A i \in Handled(H_CHANGE_POINT_TEST, "AddValue") :
        C26_PendingAtTest(i) =>
            /\ ~HasCallback(audit[i].log, "changeTest.test()")
            /\ audit[i].post.lastTestTime = audit[i].pre.lastTestTime
            /\ ChangesForwarded(i, {"level", "scale", "small", "none"}) = {}
            /\ audit[i].post.undoable
            /\ audit[i].post.lastChangePointTime = audit[i].pre.lastChangePointTime

\* A value came later than minimumChangeLength after the last test while an
\* undoable change was pending that was not to be undone.
C26_Witness ==
    \E i \in Handled(H_CHANGE_POINT_TEST, "AddValue") :
        /\ C26_PendingAtTest(i)
        /\ TimeOf(i) > audit[i].pre.lastTestTime + ChangePointTest_minimumChangeLength(100)
        /\ HasCallback(audit[i].log, "not shouldUndo()")

----------------------------------------------------------------------------
(* C27: when the test for a change is run for a value of time t, an        *)
(* SDetectedChangePoint is forwarded exactly when it returned a change     *)
(* that is large and long enough, and then m_LargeErrorFraction is 0 and   *)
(* m_LastChangePointTime is t; a change that is not sets                   *)
(* m_LastCandidateChangePointTime to its time and forwards nothing; and    *)
(* m_LastTestTime is t whatever the test returned.                         *)

C27_Tested(i) == HasCallback(audit[i].log, "changeTest.test()")

C27_Accepted(i) ==
    \/ HasCallback(audit[i].log, "change: level")
    \/ HasCallback(audit[i].log, "change: scale")

C27_Outcomes ==
    \A i \in Handled(H_CHANGE_POINT_TEST, "AddValue") :
        IF C27_Tested(i)
        THEN /\ audit[i].post.lastTestTime = TimeOf(i)
             /\ ChangesForwarded(i, {"level", "scale", "small", "none"}) # {}
                    <=> C27_Accepted(i)
             /\ C27_Accepted(i) =>
                    /\ Cardinality(ChangesForwarded(i, {"level", "scale"})) = 1
                    /\ audit[i].post.lef = ZeroFraction
                    /\ audit[i].post.lastChangePointTime = TimeOf(i)
             /\ HasCallback(audit[i].log, "change: small") =>
                    /\ audit[i].post.lastCandidateChangePointTime =
                           ChangePointTest_bucketsStartTime(
                               TimeOf(i), PopulatedLength(audit[i].post.window))
                    /\ audit[i].post.lastChangePointTime = audit[i].pre.lastChangePointTime
             /\ HasCallback(audit[i].log, "change: none") =>
                    /\ audit[i].post.lastCandidateChangePointTime =
                           audit[i].pre.lastCandidateChangePointTime
                    /\ audit[i].post.lastChangePointTime = audit[i].pre.lastChangePointTime
        ELSE /\ ChangesForwarded(i, {"level", "scale", "small", "none"}) = {}
             /\ audit[i].post.lastTestTime = audit[i].pre.lastTestTime

\* The test returned a change that was not large or long enough.
C27_Witness ==
    \E i \in Handled(H_CHANGE_POINT_TEST, "AddValue") :
        /\ C27_Tested(i)
        /\ HasCallback(audit[i].log, "change: small")
        /\ audit[i].post.lastCandidateChangePointTime # audit[i].pre.lastCandidateChangePointTime

\* The test returned a change that was, with a positive large error fraction.
C27_WitnessAccepted ==
    \E i \in Handled(H_CHANGE_POINT_TEST, "AddValue") :
        /\ C27_Tested(i)
        /\ C27_Accepted(i)
        /\ audit[i].pre.lastChangePointTime # TimeOf(i)

\* The test returned no change.
C27_WitnessNone ==
    \E i \in Handled(H_CHANGE_POINT_TEST, "AddValue") :
        C27_Tested(i) /\ HasCallback(audit[i].log, "change: none")

----------------------------------------------------------------------------
(* C28: the undo of a change is forwarded only for a value that comes      *)
(* later than a tenth of minimumChangeLength after m_LastChangePointTime,  *)
(* with a change pending that says it should be undone; it is forwarded    *)
(* once, and the change is no longer pending when the call returns: a      *)
(* change pending then was applied by the call.  No more undos are         *)
(* forwarded than undoable changes.                                        *)

C28_Undone(i) == ChangesForwarded(i, {"undo"}) # {}

C28_OldEnough(i) ==
    TimeOf(i) - audit[i].pre.lastChangePointTime >
        ChangePointTest_minimumChangeLength(100) \div 10

C28_UndoneOnce ==
    /\ \A i \in Handled(H_CHANGE_POINT_TEST, "AddValue") :
           /\ C28_Undone(i) <=>
                  /\ audit[i].pre.machine = CD_TEST
                  /\ audit[i].pre.undoable
                  /\ C28_OldEnough(i)
                  /\ HasCallback(audit[i].log, "shouldUndo()")
           /\ C28_Undone(i) =>
                  /\ Cardinality(ChangesForwarded(i, {"undo"})) = 1
                  /\ audit[i].post.undoable =>
                         \E k \in ChangesForwarded(i, {"level"}) :
                             \A u \in ChangesForwarded(i, {"undo"}) : u < k
    /\ op.undone <= op.applied

\* A change was undone by the first value later than a tenth of
\* minimumChangeLength after it, not by the value before that one.
C28_Witness ==
    /\ op.undone = 1
    /\ op.applied = 1
    /\ steps = 4
    /\ ~cpt.undoable
    /\ \E i \in Handled(H_CHANGE_POINT_TEST, "AddValue") :
           /\ C28_Undone(i)
           /\ TimeOf(i) - audit[i].pre.lastChangePointTime <
                  2 * (ChangePointTest_minimumChangeLength(100) \div 10)

\* A value within a tenth of minimumChangeLength of the change, which is
\* still pending.
C28_WitnessEarly ==
    \E i \in Handled(H_CHANGE_POINT_TEST, "AddValue") :
        /\ audit[i].pre.undoable
        /\ ~C28_OldEnough(i)
        /\ ~C28_Undone(i)
        /\ audit[i].post.undoable

----------------------------------------------------------------------------
(* C29: the first SAddValue a seasonality test in PT_INITIAL handles       *)
(* enters handle twice, leaves the test in PT_TEST with the windows that   *)
(* the bucket length has parameters for, each started at the time of the   *)
(* value floored to the longest bucket length of the window and holding    *)
(* the value if allocations are allowed, and no window is tested that was  *)
(* not there when the call began.                                          *)

\* The window has a row of WINDOW_PARAMETERS for the bucket length.
C29_Available(window) ==
    \E k \in 1..Len(WINDOW_PARAMETERS[window]) :
        WINDOW_PARAMETERS[window][k].bucketLength >= cfg.bucketLength

\* The longest bucket length of the window's row.
C29_MaxBucketLength(window) ==
    LET row == cfg.rows[window] IN row.bucketLengths[Len(row.bucketLengths)]

C29_First == {i \in Handled(H_SEASONALITY_TEST, "AddValue") : audit[i].pre.machine = PT_INITIAL}

C29_Entries(i) ==
    Cardinality({k \in DOMAIN audit[i].log :
                    audit[i].log[k] = "CSeasonalityTest::handle(SAddValue)"})

C29_FirstValue ==
    /\ \A i \in C29_First :
           /\ C29_Entries(i) = 2
           /\ audit[i].post.machine = PT_TEST
           /\ \A w \in {E_Short, E_Long} :
                  /\ audit[i].post.windows[w].present <=> C29_Available(w)
                  /\ ~audit[i].pre.windows[w].present
                  /\ C29_Available(w) =>
                         /\ audit[i].post.windows[w].start =
                                TimeOf(i) - (TimeOf(i) % C29_MaxBucketLength(w))
                         /\ audit[i].post.windows[w].n =
                                (IF MessageOf(i).allowed THEN 1 ELSE 0)
    /\ \A i \in Handled(H_SEASONALITY_TEST, "AddValue") :
           /\ HasCallback(audit[i].log, "decompose(short)") =>
                  audit[i].pre.machine = PT_TEST /\ audit[i].pre.windows[E_Short].present
           /\ HasCallback(audit[i].log, "decompose(long)") =>
                  audit[i].pre.machine = PT_TEST /\ audit[i].pre.windows[E_Long].present
           /\ i \notin C29_First => C29_Entries(i) = 1

\* The first value, with allocations allowed: both windows hold it, and the
\* long one starts before it.
C29_Witness ==
    \E i \in C29_First :
        /\ MessageOf(i).allowed
        /\ \A w \in {E_Short, E_Long} :
               audit[i].post.windows[w].present /\ audit[i].post.windows[w].n = 1
        /\ audit[i].post.windows[E_Long].start < TimeOf(i)

\* The first value under the hard limit, to a test with a long window only.
C29_WitnessHardLimit ==
    \E i \in C29_First :
        /\ ~MessageOf(i).allowed
        /\ ~audit[i].post.windows[E_Short].present
        /\ audit[i].post.windows[E_Long].present
        /\ audit[i].post.windows[E_Long].n = 0

\* A window was tested.
C29_WitnessTested ==
    \E i \in Handled(H_SEASONALITY_TEST, "AddValue") :
        HasCallback(audit[i].log, "decompose(short)")

----------------------------------------------------------------------------
(* Months.  The values come one, two, three or ten months of thirty days   *)
(* apart, the first of them in the second, third, fourth or eleventh month *)
(* of a year, and the inner calendar test returns a component or none.     *)
(* op.entered is the month of the value with which the calendar test went  *)
(* from CC_INITIAL to CC_TEST, -1 before; op.tested counts the calls of    *)
(* m_Test->test() since construction.                                      *)

MonthGaps == {30, 60, 90, 300}

MonthInputs == {Quiet, WithEvent(Quiet, <<"calendar", <<1>> >>)}

NumberInnerTests(log) == Cardinality({k \in DOMAIN log : log[k] = "test()"})

InitMonths ==
    /\ cfg = Configuration(DAY, "months", MaxMonthSteps)
    /\ Constructed
    /\ op = [name |-> "new", time |-> 0, restores |-> 0, entered |-> -1, tested |-> 0]

AddMonthValue ==
    /\ steps < cfg.maxSteps
    /\ \E gap \in MonthGaps, o \in MonthInputs :
       \E m \in {NextMessage(gap, o)} :
       \E x \in {Mediator_forward(Context(o), m, 0, 0, 1)} :
           Added(m, x, [op EXCEPT
                           !.name = "AddValue", !.time = m.time,
                           !.entered = IF cc.machine = CC_INITIAL /\ x.cc.machine = CC_TEST
                                       THEN month(m.time) ELSE @,
                           !.tested = @ + NumberInnerTests(x.log)])

NextMonths == AddMonthValue

SpecMonths == InitMonths /\ [][NextMonths]_vars

----------------------------------------------------------------------------
(* C30: after the calendar test entered CC_TEST with a value of month m0,  *)
(* m_Test->test() is not called and no SDetectedCalendar is forwarded      *)
(* before a value of month (m0 + 3) mod 12: the first test is made for     *)
(* such a value.                                                           *)

C30_NoneBefore ==
    op.tested = 0 =>
        \A k \in DOMAIN trace.msgs : trace.msgs[k].type # "DetectedCalendar"

C30_FirstTest ==
    (op.tested = 0 /\ op'.tested > 0) =>
        /\ op.entered >= 0
        /\ op'.tested = 1
        /\ (lastTime' \div (30 * DAY)) % 12 = (op.entered + 3) % 12

C30_ThirdMonth ==
    /\ [](C30_NoneBefore /\ (op.entered = -1 => op.tested = 0))
    /\ [][C30_FirstTest]_vars

\* The test entered CC_TEST in the eleventh month of a year and made its
\* first test in the second month of the next, with a component returned.
C30_Witness ==
    /\ op.entered = 10
    /\ op.tested = 1
    /\ month(lastTime) = 1
    /\ \E k \in DOMAIN trace.msgs : trace.msgs[k].type = "DetectedCalendar"

\* Four values, the later ones two, four and five months after the first:
\* none in the third month after it, and no test was made.
C30_WitnessSkipped ==
    /\ op.entered = 1
    /\ op.tested = 0
    /\ steps = 4
    /\ month(lastTime) = 6

----------------------------------------------------------------------------
(* C31: every SDetectedSeasonal forwarded is handled by the change point   *)
(* test and by the calendar test, whatever the component store does with   *)
(* it: the change point test is left with a window of the same length and  *)
(* empty buckets, no residual moments, a large error fraction and count    *)
(* weight adjustments of 0 and m_LastCandidateChangePointTime the time     *)
(* less four times maximumIntervalToDetectChange(1.0), its undoable change *)
(* and its other times as they were; a calendar test in CC_TEST is left    *)
(* with an empty error distribution.                                       *)

C31_Seasonal == {k \in DOMAIN trace.msgs : trace.msgs[k].type = "DetectedSeasonal"}

\* The record of handler h for message k.
C31_Record(h, k) == {i \in DOMAIN audit : audit[i].h = h /\ audit[i].id = k}

\* The component store took nothing of the proposal: it added no component.
C31_Refused(k) ==
    \E i \in C31_Record(H_COMPONENTS, k) :
        /\ trace.msgs[k].payload.seasonal # <<>>
        /\ IsSubSeq(audit[i].post.seasonal.comps, audit[i].pre.seasonal.comps)

C31_TestersReset ==
    \A k \in C31_Seasonal :
        /\ Cardinality(C31_Record(H_CHANGE_POINT_TEST, k)) = 1
        /\ Cardinality(C31_Record(H_CALENDAR_TEST, k)) = 1
        /\ \A i \in C31_Record(H_CHANGE_POINT_TEST, k) :
               /\ Len(audit[i].post.window) = Len(audit[i].pre.window)
               /\ \A b \in DOMAIN audit[i].post.window :
                      audit[i].post.window[b] = [count |-> 0, sum |-> 0]
               /\ audit[i].post.residual = [count |-> 0, sum |-> 0]
               /\ audit[i].post.lef.num = 0
               /\ audit[i].post.adjustment = 0
               /\ audit[i].post.minimum = 0
               /\ audit[i].post.lastCandidateChangePointTime =
                      trace.msgs[k].payload.end -
                          4 * ChangePointTest_maximumIntervalToDetectChange(100)
               /\ audit[i].post.undoable = audit[i].pre.undoable
               /\ audit[i].post.lastTestTime = audit[i].pre.lastTestTime
               /\ audit[i].post.lastChangePointTime = audit[i].pre.lastChangePointTime
               /\ audit[i].post.machine = audit[i].pre.machine
        /\ \A i \in C31_Record(H_CALENDAR_TEST, k) :
               audit[i].pre.machine = CC_TEST =>
                   /\ audit[i].post.test.present
                   /\ audit[i].post.test.errors = 0
                   /\ audit[i].post.test.n = audit[i].pre.test.n
                   /\ audit[i].post.lastMonth = audit[i].pre.lastMonth
                   /\ audit[i].post.machine = CC_TEST

\* The store refused a proposal under the hard limit; the change point test
\* held values, the calendar test remembered errors.
C31_Witness ==
    \E k \in C31_Seasonal :
        /\ C31_Refused(k)
        /\ ~trace.msgs[k].allowed
        /\ \E i \in C31_Record(H_CHANGE_POINT_TEST, k) :
               /\ audit[i].pre.residual.count > 0
               /\ \E b \in DOMAIN audit[i].pre.window : audit[i].pre.window[b].count > 0
        /\ \E i \in C31_Record(H_CALENDAR_TEST, k) :
               audit[i].pre.machine = CC_TEST /\ audit[i].pre.test.errors > 0

\* The change point test held an undoable change.
C31_WitnessPending ==
    \E k \in C31_Seasonal :
        \E i \in C31_Record(H_CHANGE_POINT_TEST, k) :
            audit[i].pre.undoable /\ audit[i].pre.residual.count > 0

\* The store accepted a proposal.
C31_WitnessAccepted ==
    \E k \in C31_Seasonal :
        /\ ~C31_Refused(k)
        /\ trace.msgs[k].payload.seasonal # <<>>
        /\ \E i \in C31_Record(H_CHANGE_POINT_TEST, k) : audit[i].pre.residual.count > 0

\* The mask of the proposal had another length than the store has components.
C31_WitnessMismatch ==
    \E k \in C31_Seasonal :
        /\ \E i \in C31_Record(H_COMPONENTS, k) : i \in C4_Mismatched
        /\ \E i \in C31_Record(H_CHANGE_POINT_TEST, k) : audit[i].pre.residual.count > 0

----------------------------------------------------------------------------
(* C32.                                                                     *)

\* The features of the calendar components of a component store.
C32_Features(c) ==
    IF c.calendar.present
    THEN {c.calendar.comps[i].feature : i \in 1..Len(c.calendar.comps)}
    ELSE {}

C32_Distinct(c) ==
    c.calendar.present
    => \A i, j \in 1..Len(c.calendar.comps) :
           c.calendar.comps[i].feature = c.calendar.comps[j].feature => i = j

\* The calls of handle(SDetectedCalendar) that found the feature modelled.
C32_Modelled ==
    {i \in Handled(H_COMPONENTS, "DetectedCalendar") :
        MessageOf(i).payload.feature \in C32_Features(audit[i].pre)}

\* C32: no two calendar components have the same feature, in the component
\* store and in what every handler of the component store met and left; and
\* a handle(SDetectedCalendar) whose feature is already modelled leaves the
\* component store as it met it, calls no callback, writes no annotation
\* and applies no symbol to the machine.
C32_OneComponentPerFeature ==
    /\ C32_Distinct(sc)
    /\ \A i \in DOMAIN audit :
           audit[i].h = H_COMPONENTS
           => C32_Distinct(audit[i].pre) /\ C32_Distinct(audit[i].post)
    /\ \A i \in C32_Modelled :
           /\ audit[i].post = audit[i].pre
           /\ audit[i].log = <<>>
           /\ audit[i].moves = <<>>

\* A modelled feature is detected again, in SC_NORMAL with room for another
\* component and allocations allowed.
C32_Witness ==
    \E i \in C32_Modelled :
        /\ audit[i].pre.machine = SC_NORMAL
        /\ MessageOf(i).allowed
        /\ Components_size(audit[i].pre) + m_CalendarComponentSize <= Components_maxSize

\* A feature that is not modelled is added with SC_ADDED_COMPONENTS beside
\* another one.
C32_WitnessAdded ==
    \E i \in Handled(H_COMPONENTS, "DetectedCalendar") \ C32_Modelled :
        /\ Len(audit[i].moves) > 0
        /\ audit[i].moves[1][2] = SC_ADDED_COMPONENTS
        /\ C32_Features(audit[i].pre) # {}
        /\ C32_Features(audit[i].post) =
               C32_Features(audit[i].pre) \cup {MessageOf(i).payload.feature}

----------------------------------------------------------------------------
(* C33.                                                                     *)

C33_Sorted(c) ==
    \A i, j \in 1..Len(c.seasonal.comps) :
        i < j => c.seasonal.comps[i].period <= c.seasonal.comps[j].period

\* The seasonal components a handler of the component store met.
C33_Met(i) ==
    {audit[i].pre.seasonal.comps[k] : k \in 1..Len(audit[i].pre.seasonal.comps)}

\* The calls of handle(SDetectedSeasonal) in which the component store
\* accepted the proposal: it fitted the trend and called the callback.
C33_Accepted ==
    {i \in Handled(H_COMPONENTS, "DetectedSeasonal") :
        HasCallback(audit[i].log, "callback(residuals)")}

\* The seasonal components of a store without the values they hold.
C33_Times(store) ==
    [k \in 1..Len(store.comps) |->
        [period |-> store.comps[k].period, window |-> store.comps[k].window,
         size |-> store.comps[k].size]]

C33_AllClear(store) == \A k \in 1..Len(store.errs) : store.errs[k] = E_CLEAR

\* C33: the seasonal components are in ascending order of period, after
\* every operation and in what every handler of the component store met and
\* left; a handle(SDetectedSeasonal) that accepted the proposal left every
\* seasonal and every calendar component with cleared error statistics; and
\* every other call of a handler of the component store left a subsequence
\* of the seasonal components it met.
C33_SortedByPeriod ==
    /\ C33_Sorted(sc)
    /\ \A i \in DOMAIN audit :
           audit[i].h = H_COMPONENTS
           => /\ C33_Sorted(audit[i].pre) /\ C33_Sorted(audit[i].post)
              /\ i \in C33_Accepted
                     => /\ C33_AllClear(audit[i].post.seasonal)
                        /\ C33_AllClear(audit[i].post.calendar)
              /\ i \notin C33_Accepted
                     => IsSubSeq(C33_Times(audit[i].post.seasonal),
                                 C33_Times(audit[i].pre.seasonal))

\* An accepted proposal put a component before one the store kept, and
\* cleared error statistics that held samples.
C33_Witness ==
    \E i \in C33_Accepted :
        /\ \E k \in 1..Len(audit[i].pre.seasonal.errs) : audit[i].pre.seasonal.errs[k] # E_CLEAR
        /\ \E k, l \in 1..Len(audit[i].post.seasonal.comps) :
               /\ k < l
               /\ audit[i].post.seasonal.comps[l] \in C33_Met(i)
               /\ audit[i].post.seasonal.comps[k] \notin C33_Met(i)
               /\ audit[i].post.seasonal.comps[k].period < audit[i].post.seasonal.comps[l].period

\* An accepted proposal whose components came in another order than that
\* of their periods.
C33_WitnessProposal ==
    \E i \in C33_Accepted :
        \E k, l \in 1..Len(MessageOf(i).payload.seasonal) :
            /\ k < l
            /\ MessageOf(i).payload.seasonal[k].period > MessageOf(i).payload.seasonal[l].period

\* A handler that accepted no proposal removed seasonal components, by
\* pruning or for their bad values, and kept others.
C33_WitnessRemoved ==
    \E i \in DOMAIN audit :
        /\ audit[i].h = H_COMPONENTS
        /\ i \notin C33_Accepted
        /\ Len(audit[i].post.seasonal.comps) < Len(audit[i].pre.seasonal.comps)
        /\ Len(audit[i].post.seasonal.comps) >= 2

----------------------------------------------------------------------------
(* CSeasonal::remove on its own.  The seasonal components are any of up to  *)
(* MaxRemoveLength components in ascending order of period, with any error  *)
(* statistics; remove is called with any mask of up to one more entry, and  *)
(* prune whatever the error statistics are.                                 *)

RemoveComponents ==
    {SeasonalComponent(period, window, DefaultSeasonalComponentSize) :
        period \in {DAY, WEEK}, window \in 0..2}

RemoveStores ==
    UNION {{[present |-> TRUE, comps |-> comps, errs |-> errs] :
               comps \in {c \in [1..n -> RemoveComponents] :
                             \A i, j \in 1..n : i < j => c[i].period <= c[j].period},
               errs \in [1..n -> {E_CLEAR, E_KEEP, E_REMOVE}]} : n \in 0..MaxRemoveLength}

RemoveMasks == UNION {[1..n -> BOOLEAN] : n \in 0..(MaxRemoveLength + 1)}

InitRemove ==
    /\ cfg = Configuration(DAY, "remove", MaxRemoveSteps)
    /\ steps = 0
    /\ lastTime = 0
    /\ firstTime = 0
    /\ cpt = ChangePointTest_new
    /\ pt = SeasonalityTest_new
    /\ cc = CalendarTest_new
    /\ \E store \in RemoveStores : sc = [Components_new EXCEPT !.seasonal = store]
    /\ trace = [events |-> <<>>, msgs |-> <<>>]
    /\ audit = <<>>
    /\ op = [name |-> "new", time |-> 0, restores |-> 0, mask |-> <<>>,
             met |-> NoStore, removed |-> FALSE]

\* m_Seasonal->remove(mask): op.removed is what it returned.
RemoveByMask ==
    /\ steps < cfg.maxSteps
    /\ \E mask \in RemoveMasks :
        /\ sc' = [sc EXCEPT !.seasonal = Seasonal_remove(@, mask)]
        /\ op' = [op EXCEPT !.name = "remove", !.mask = mask, !.met = sc.seasonal,
                            !.removed = Seasonal_removeOk(sc.seasonal, mask)]
    /\ steps' = steps + 1
    /\ UNCHANGED <<cfg, lastTime, firstTime, cpt, pt, cc, trace, audit>>

\* m_Seasonal->prune(time, bucketLength).
PruneStale ==
    /\ steps < cfg.maxSteps
    /\ sc' = [sc EXCEPT !.seasonal = Seasonal_prune(@)]
    /\ op' = [op EXCEPT !.name = "prune", !.mask = <<>>, !.met = sc.seasonal,
                        !.removed = FALSE]
    /\ steps' = steps + 1
    /\ UNCHANGED <<cfg, lastTime, firstTime, cpt, pt, cc, trace, audit>>

NextRemove == RemoveByMask \/ PruneStale

SpecRemove == InitRemove /\ [][NextRemove]_vars

----------------------------------------------------------------------------
(* C34.                                                                     *)

\* The positions of the mask that are FALSE.
C34_Kept == {p \in 1..Len(op.mask) : ~op.mask[p]}

\* The k-th of them in ascending order.
C34_Position(k) ==
    CHOOSE p \in C34_Kept : Cardinality({q \in C34_Kept : q <= p}) = k

\* C34: after remove(mask) with a mask of as many entries as there are
\* seasonal components, the components and the error statistics are two
\* lists of the same length, the number of FALSE entries of the mask, and
\* the k-th of each is the component, and the error statistics, that was
\* at the k-th position whose mask entry is FALSE; a mask of another length
\* is refused and changes nothing.
C34_StableFilter ==
    op.name = "remove" =>
        IF Len(op.mask) = Len(op.met.comps)
        THEN /\ op.removed
             /\ Len(sc.seasonal.comps) = Cardinality(C34_Kept)
             /\ Len(sc.seasonal.errs) = Len(sc.seasonal.comps)
             /\ \A k \in 1..Len(sc.seasonal.comps) :
                    /\ sc.seasonal.comps[k] = op.met.comps[C34_Position(k)]
                    /\ sc.seasonal.errs[k] = op.met.errs[C34_Position(k)]
        ELSE ~op.removed /\ sc.seasonal = op.met

\* A component was removed from between two that stayed, the three being
\* different components with different error statistics.
C34_Witness ==
    /\ op.name = "remove"
    /\ op.mask = <<FALSE, TRUE, FALSE>>
    /\ Len(op.met.comps) = 3
    /\ Cardinality({op.met.comps[k] : k \in 1..3}) = 3
    /\ Cardinality({op.met.errs[k] : k \in 1..3}) = 3
    /\ Len(sc.seasonal.comps) = 2

\* The first components were removed and the last kept.
C34_WitnessLast ==
    /\ op.name = "remove"
    /\ op.mask = <<TRUE, TRUE, FALSE>>
    /\ op.met.errs = <<E_KEEP, E_REMOVE, E_CLEAR>>
    /\ sc.seasonal.errs = <<E_CLEAR>>

\* A mask of another length was refused.
C34_WitnessRefused ==
    /\ op.name = "remove"
    /\ ~op.removed
    /\ Len(op.met.comps) = 2

----------------------------------------------------------------------------
(* C35.                                                                     *)

\* The positions of the components of a store that have window w.
C35_OfWindow(store, w) == {i \in 1..Len(store.comps) : store.comps[i].window = w}

\* C35: after prune, every window that had a windowed component has one,
\* whatever the error statistics were; seasonal components that were a
\* single one are as they were; and prune leaves only components it met,
\* in their order, each with its error statistics.
C35_WindowsKept ==
    op.name = "prune" =>
        /\ \A w \in 1..2 :
               C35_OfWindow(op.met, w) # {} => C35_OfWindow(sc.seasonal, w) # {}
        /\ Len(op.met.comps) = 1 => sc.seasonal = op.met
        /\ IsSubSeq(sc.seasonal.comps, op.met.comps)
        /\ IsSubSeq(sc.seasonal.errs, op.met.errs)
        /\ Len(sc.seasonal.errs) = Len(sc.seasonal.comps)

\* The error statistics of all three components of one window said to
\* remove them, and one is left.
C35_Witness ==
    /\ op.name = "prune"
    /\ Len(op.met.comps) = 3
    /\ \A i \in 1..3 : op.met.comps[i].window = 1 /\ op.met.errs[i] = E_REMOVE
    /\ Len(sc.seasonal.comps) = 1

\* A single component whose error statistics said to remove it.
C35_WitnessSingle ==
    /\ op.name = "prune"
    /\ Len(op.met.comps) = 1
    /\ op.met.errs = <<E_REMOVE>>

\* The only components with no window went, and those of two windows were
\* left.
C35_WitnessUnwindowed ==
    /\ op.name = "prune"
    /\ Len(op.met.comps) = 3
    /\ C35_OfWindow(op.met, 0) # {}
    /\ C35_OfWindow(sc.seasonal, 0) = {}
    /\ C35_OfWindow(sc.seasonal, 1) # {}
    /\ C35_OfWindow(sc.seasonal, 2) # {}

----------------------------------------------------------------------------
(* C36.                                                                     *)

\* The level of the prediction at a time of window w: the level of the
\* trend and the mean values of the components with no window and of
\* those of window w.
C36_Level(level, comps, w) ==
    FractionAdd(level, FractionAdd(LevelSum(comps, 0), LevelSum(comps, w)))

\* C36 as stated: when canonicalize has moved the common level to the
\* trend, the level of the prediction is, at the times of either window,
\* what it was after prune.
C36_PredictionUnchanged ==
    (op.name = "AddValue" /\ op.pruned # <<>>) =>
        \A w \in 1..2 :
            C36_Level(sc.trend.level, op.canonical, w) = C36_Level(op.level, op.pruned, w)

\* The same of the components that all have a window or all have none,
\* with components in both windows in the former case.
C36_UnchangedApart ==
    (/\ op.name = "AddValue" /\ op.pruned # <<>>
     /\ \/ InWindow(op.pruned, 0) = {} /\ \A w \in 1..2 : InWindow(op.pruned, w) # {}
        \/ InWindow(op.pruned, 0) = DOMAIN op.pruned) =>
        \A w \in 1..2 :
            C36_Level(sc.trend.level, op.canonical, w) = C36_Level(op.level, op.pruned, w)

\* A component with no window and one of window 1, both of mean value 2:
\* canonicalize took 2 from each and gave 2 to the trend.
C36_Witness ==
    /\ op.name = "AddValue"
    /\ Len(op.pruned) = 2
    /\ op.pruned[1].window = 0 /\ op.pruned[2].window = 1
    /\ op.pruned[1].level = Fraction(2, 1) /\ op.pruned[2].level = Fraction(2, 1)
    /\ op.canonical[1].level = ZeroFraction /\ op.canonical[2].level = ZeroFraction
    /\ sc.trend.level = FractionAdd(op.level, Fraction(2, 1))

\* Components of both windows and none without a window: the level of the
\* prediction is unchanged with a common level moved.
C36_WitnessApart ==
    /\ op.name = "AddValue"
    /\ Len(op.pruned) = 2
    /\ op.pruned[1].window = 1 /\ op.pruned[2].window = 2
    /\ sc.trend.level # op.level

----------------------------------------------------------------------------
(* C37.                                                                     *)

\* The calls of m_Machine.apply a handler of the component store may make
\* when it is entered in SC_NORMAL: none, SC_INTERPOLATED alone, or
\* SC_ADDED_COMPONENTS and then SC_INTERPOLATED.
C37_Moves ==
    {<<>>,
     <<<<SC_NORMAL, SC_INTERPOLATED, SC_NORMAL>>>>,
     <<<<SC_NORMAL, SC_ADDED_COMPONENTS, SC_NEW_COMPONENTS>>,
       <<SC_NEW_COMPONENTS, SC_INTERPOLATED, SC_NORMAL>>>>}

\* C37: the component store is in SC_NORMAL after every operation, and
\* every call of one of its handlers, of SAddValue, SDetectedSeasonal,
\* SDetectedCalendar and SDetectedChangePoint, was entered in SC_NORMAL,
\* returned in SC_NORMAL and applied at most two symbols to the machine:
\* SC_ADDED_COMPONENTS is followed by SC_INTERPOLATED and by nothing else.
C37_NewComponentsTransient ==
    /\ sc.machine = SC_NORMAL
    /\ \A i \in DOMAIN audit :
           audit[i].h = H_COMPONENTS
           => /\ audit[i].pre.machine = SC_NORMAL
              /\ audit[i].post.machine = SC_NORMAL
              /\ audit[i].moves \in C37_Moves
              /\ MessageOf(i).type \in {"AddValue", "DetectedChangePoint"}
                     => Len(audit[i].moves) <= 1

\* Handlers of SDetectedSeasonal and of SDetectedCalendar went through
\* SC_NEW_COMPONENTS in one operation, the former with components added.
C37_Witness ==
    /\ \E i \in Handled(H_COMPONENTS, "DetectedSeasonal") :
           /\ Len(audit[i].moves) = 2
           /\ NumberSeasonal(audit[i].post) > NumberSeasonal(audit[i].pre)
    /\ \E i \in Handled(H_COMPONENTS, "DetectedCalendar") : Len(audit[i].moves) = 2

\* The handler of SAddValue interpolated components that were due.
C37_WitnessDue ==
    \E i \in Handled(H_COMPONENTS, "AddValue") :
        audit[i].moves = <<<<SC_NORMAL, SC_INTERPOLATED, SC_NORMAL>>>>

\* A proposal was refused for its size and no symbol applied.
C37_WitnessRefused ==
    \E i \in Handled(H_COMPONENTS, "DetectedSeasonal") : audit[i].moves = <<>>

----------------------------------------------------------------------------
(* The machines from their initial states: the four objects as their       *)
(* constructors leave them, for a job of either bucket length, and apply    *)
(* called with any symbol of the alphabet of the machine.                   *)

InitSymbols ==
    /\ cfg \in {Configuration(b, "symbols", MaxSymbolSteps) : b \in BucketLengths}
    /\ Constructed
    /\ op = NoOperation

NextSymbols ==
    \/ ApplyChangePointTest
    \/ ApplySeasonalityTest
    \/ ApplyCalendarTest
    \/ ApplyComponents

SpecSymbols == InitSymbols /\ [][NextSymbols]_vars

----------------------------------------------------------------------------
(* C38.                                                                     *)

\* The states a machine can be taken to from the given ones by the symbols
\* of its table.
RECURSIVE C38_Closure(_, _)
C38_Closure(table, states) ==
    LET next == states \cup {MachineApply(table, symbol - 1, state) :
                                symbol \in DOMAIN table, state \in states}
    IN  IF next = states THEN states ELSE C38_Closure(table, next)

\* C38: none of the four machines is in its error state, whatever symbols
\* were applied since construction; and no sequence of symbols takes a
\* transition function from a state the constructors create to the error
\* state, the state between the calls of apply included.
C38_ErrorUnreachable ==
    /\ cpt.machine # CD_ERROR
    /\ pt.machine # PT_ERROR
    /\ cc.machine # CC_ERROR
    /\ sc.machine # SC_ERROR
    /\ op.name \in {"CChangePointTest::apply", "CSeasonalityTest::apply",
                     "CCalendarTest::apply", "CComponents::apply"}
           => \A k \in DOMAIN op.moves : op.moves[k][3] # SC_ERROR
    /\ CD_ERROR \notin C38_Closure(CD_TRANSITION_FUNCTION, {CD_TEST})
    /\ PT_ERROR \notin C38_Closure(PT_TRANSITION_FUNCTION, {PT_INITIAL, PT_NOT_TESTING})
    /\ CC_ERROR \notin C38_Closure(CC_TRANSITION_FUNCTION, {CC_INITIAL, CC_NOT_TESTING})
    /\ SC_ERROR \notin C38_Closure(SC_TRANSITION_FUNCTION, {SC_NORMAL})

\* Symbols were applied to all four machines: the change point test was
\* disabled, both tests were given a value, and the component store was
\* told of added components after it had been told it had interpolated.
C38_Witness ==
    /\ cpt.machine = CD_NOT_TESTING
    /\ pt.machine = PT_TEST
    /\ cc.machine = CC_TEST
    /\ op.name = "CComponents::apply"
    /\ op.symbol = SC_ADDED_COMPONENTS
    /\ Len(op.moves) = 2
    /\ steps = 4

\* The seasonality test was reset after a value and given another.
C38_WitnessReset ==
    /\ op.name = "CSeasonalityTest::apply"
    /\ op.symbol = PT_NEW_VALUE
    /\ op.pre.machine = PT_INITIAL
    /\ steps = 3

----------------------------------------------------------------------------
(* Copies.  Values are added as for the changes; between them the change    *)
(* point test and the calendar test are copied, for a forecast or not, and  *)
(* the calendar test is reset.  The copies are op.changePointTest and        *)
(* op.calendarTest; the objects copied stay as they are.                    *)

InitCopy ==
    /\ cfg = Configuration(HALF_HOUR, "copy", MaxCopySteps)
    /\ Constructed
    /\ op = [name |-> "new", time |-> 0, restores |-> 0, applied |-> 0, undone |-> 0,
             isForForecast |-> FALSE,
             changePointTest |-> ChangePointTest_new, calendarTest |-> CalendarTest_new]

CopyChangePointTest ==
    /\ steps < cfg.maxSteps
    /\ \E isForForecast \in BOOLEAN :
           op' = [op EXCEPT !.name = "CChangePointTest(other, isForForecast)",
                            !.isForForecast = isForForecast,
                            !.changePointTest = ChangePointTest_copy(cpt, isForForecast)]
    /\ steps' = steps + 1
    /\ UNCHANGED <<cfg, lastTime, firstTime, cpt, pt, cc, sc, trace, audit>>

CopyCalendarTest ==
    /\ steps < cfg.maxSteps
    /\ \E isForForecast \in BOOLEAN :
           op' = [op EXCEPT !.name = "CCalendarTest(other, isForForecast)",
                            !.isForForecast = isForForecast,
                            !.calendarTest = CalendarTest_copy(cc, isForForecast)]
    /\ steps' = steps + 1
    /\ UNCHANGED <<cfg, lastTime, firstTime, cpt, pt, cc, sc, trace, audit>>

\* CCalendarTest::apply(CC_RESET, message).
ResetCalendarTest ==
    /\ steps < cfg.maxSteps
    /\ cc' = CalendarTest_apply(cc, CC_RESET, [time |-> lastTime])
    /\ op' = [op EXCEPT !.name = "CCalendarTest::apply(CC_RESET)"]
    /\ steps' = steps + 1
    /\ UNCHANGED <<cfg, lastTime, firstTime, cpt, pt, sc, trace, audit>>

NextCopy == AddChangeValue \/ CopyChangePointTest \/ CopyCalendarTest \/ ResetCalendarTest

SpecCopy == InitCopy /\ [][NextCopy]_vars

----------------------------------------------------------------------------
(* C39.                                                                     *)

\* C39 as stated: a copy of the change point test that is not for a
\* forecast has the members of the test copied, the undoable change among
\* them, and its checksum.
C39_CopyEquivalent ==
    (op.name = "CChangePointTest(other, isForForecast)" /\ ~op.isForForecast) =>
        /\ op.changePointTest = cpt
        /\ ChangePointTest_checksum(op.changePointTest) = ChangePointTest_checksum(cpt)

\* What the copy does keep: every member but the undoable change, of which
\* the copy has none.
C39_CopyButUndoable ==
    (op.name = "CChangePointTest(other, isForForecast)" /\ ~op.isForForecast) =>
        /\ op.changePointTest = [cpt EXCEPT !.undoable = FALSE]
        /\ ChangePointTest_checksum(op.changePointTest) = ChangePointTest_checksum(cpt)
               <=> ~cpt.undoable

\* A test with an undoable change pending was copied, not for a forecast.
C39_Witness ==
    /\ op.name = "CChangePointTest(other, isForForecast)"
    /\ ~op.isForForecast
    /\ cpt.undoable
    /\ ~op.changePointTest.undoable
    /\ cpt.machine = CD_TEST

----------------------------------------------------------------------------
(* C40.                                                                     *)

C40_OwnsInnerTest(t) == t.machine = CC_TEST => t.test.present

\* C40 as stated: a calendar test in CC_TEST has an inner test, the test
\* of the decomposition after every operation and every copy of it.
C40_TestOwnsInnerTest ==
    /\ C40_OwnsInnerTest(cc)
    /\ op.name = "CCalendarTest(other, isForForecast)" => C40_OwnsInnerTest(op.calendarTest)

\* The same without the copies for a forecast.
C40_OwnsButForecast ==
    /\ C40_OwnsInnerTest(cc)
    /\ \A i \in DOMAIN audit :
           audit[i].h = H_CALENDAR_TEST
           => C40_OwnsInnerTest(audit[i].pre) /\ C40_OwnsInnerTest(audit[i].post)
    /\ (op.name = "CCalendarTest(other, isForForecast)" /\ ~op.isForForecast)
           => op.calendarTest = cc

\* A calendar test in CC_TEST, holding values, was copied for a forecast:
\* the copy is in CC_TEST with no inner test.
C40_Witness ==
    /\ op.name = "CCalendarTest(other, isForForecast)"
    /\ op.isForForecast
    /\ cc.machine = CC_TEST /\ cc.test.n > 0
    /\ op.calendarTest.machine = CC_TEST
    /\ ~op.calendarTest.test.present

\* The test was reset in CC_TEST and given a value again.
C40_WitnessReset ==
    /\ op.name = "AddValue"
    /\ steps = 3
    /\ cc.machine = CC_TEST /\ cc.test.n = 1

====
